---- MODULE Spec2Model ----
(***************************************************************************)
(* Model of the color sensor controller of src/color_sensor.test.js        *)
(* (newColorSensorController): the rolling-window stabilizer, the spec     *)
(* matcher and the handler registry with its dispatch loop.                *)
(*                                                                         *)
(* Representation notes.                                                   *)
(*  - A color is a record [r, g, b] of integers.                           *)
(*  - average() of sampled colors divides a sum by a length: an averaged   *)
(*    color is [r, g, b, n], the three channel sums and the divisor n, and *)
(*    stands for the doubles the three divisions give.                     *)
(*  - standardDeviation() computes on doubles, rounding after every        *)
(*    operation as IEEE 754 does; the model does the same on records       *)
(*    [s, m, e] and returns per channel the double given to Math.sqrt,     *)
(*    which areStable compares with the square of the threshold.           *)
(*  - An array built with unshift() is a sequence whose element 1 is the   *)
(*    newest entry.                                                        *)
(*  - JavaScript runs one call to completion before any timer or promise   *)
(*    callback: every action below is one top-level call, including every  *)
(*    nested call it makes (a handler body that calls getColor() samples   *)
(*    again inside the dispatch that invoked it).                          *)
(***************************************************************************)
EXTENDS Integers, Sequences, FiniteSets, TLC

\* ------------------------------------------------------------------ bounds
MaxStability == 2       \* stabilities offered to configureSampling: 1..MaxStability
MaxSamples == 3         \* samples pulled from the sample source in one run
MaxRegs == 2            \* handler registrations (whenMatches with a function) in one run
MaxTimers == 1          \* pending collectSamples timers
MaxOutlierSamples == 100    \* samples the outlier scenario pulls
MaxScanTicks == 5       \* readings one scan takes from the sample source
MaxSpecCalls == 2       \* calls of getColorSpec() in one run
MaxStatColors == 3      \* colors in a list given to average or standardDeviation
MaxWindowStability == 3 \* stabilities offered in the runs that fill the windows
MaxWindowSamples == 5   \* samples pulled in a run that fills the windows
MaxConvergeStability == 3 \* stabilities offered in the runs with a constant source
MaxConvergeSamples == 4 \* samples pulled in a run with a constant source
MaxBesideSamples == 2   \* samples the stabilizer pulls in a run that also scans
MaxBesideTicks == 2     \* readings a scan takes in a run that also samples
MaxRescanTicks == 3     \* readings each scan takes in a run that scans again
MaxLoops == 2           \* pending setTimeout(collectSamples) callbacks of the loops run

\* ------------------------------------------------------- program constants
DefaultStability == 20
DefaultFrequency == 100
StabilityThreshold == 3
ProgramFrequency == 250 \* the frequency the robot program asks for
InitialStability == 1
InitialFrequency == 0

\* --------------------------------------------------------------- the inputs
\* a field absent from the newConfig object (undefined in the source)
Undefined == 0 - 1
NotAFunction == "notAFunction"

Color(r, g, b) == [r |-> r, g |-> g, b |-> b]
Off == Color(0, 0, 0)
NoColor == Color(-1, -1, -1)

\* the colors the sample source (getColorFn) can return
Colors == {Color(10, 20, 30), Color(255, 57, 97)}

\* the frequencies offered to configureSampling
Frequencies == {0, Undefined}

\* the callbacks a program registers.  "sync" calls done() in its body;
\* "async" keeps the token and calls it later (or never); "reenter" calls
\* controller.getColor() in its body and then done().
Fns == {"sync", "async", "reenter"}

Channel(value, tolerance) == [value |-> value, tolerance |-> tolerance]

\* the spec objects of the program (results of newSpec), by identity: 1 and 2
\* get handlers, 3 is only asked isMatch
SpecIds == {1, 2}
ProbedSpecIds == {1, 2, 3}
\* two spec objects with the same values and tolerances, as two calls of
\* getColorSpec() on one scan return them
TwinSpecIds == {3, 4}
\* the spec object a "register" callback registers a handler on
RegisteredInBody == 2
SpecDef(s) ==
    IF s = 1
    THEN [r |-> Channel(10, 10), g |-> Channel(20, 10), b |-> Channel(30, 10)]
    ELSE IF s = 2
    THEN [r |-> Channel(130, 125), g |-> Channel(40, 20), b |-> Channel(60, 40)]
    ELSE [r |-> Channel(245, 10), g |-> Channel(57, 10), b |-> Channel(97, 10)]

\* the region of a spec, as the properties read it: every channel of c lies in
\* the inclusive range [value - tolerance, value + tolerance]
Within(spec, c) ==
    \A ch \in {"r", "g", "b"} :
        /\ spec[ch].value - spec[ch].tolerance <= c[ch]
        /\ c[ch] <= spec[ch].value + spec[ch].tolerance

\* ------------------------------------------------------------------ helpers
Min(a, b) == IF a < b THEN a ELSE b
Max(a, b) == IF a > b THEN a ELSE b

RECURSIVE SumChannel(_, _, _)
\* the sum of channel ch over the first k colors
SumChannel(colors, ch, k) ==
    IF k = 0 THEN 0 ELSE colors[k][ch] + SumChannel(colors, ch, k - 1)

\* --------------------------------------------------- numbers of the program
\* Every number of the program is an IEEE 754 double.  The integers of the
\* model stand for the doubles that are integers (every integer below 2^53 is
\* one, and sums of channels stay far below).  A double that need not be an
\* integer is [s, m, e]: the number s * m * 2^e with the sign s (1 or -1), the
\* natural number m < 2^53 written as a sequence of base-WideBase digits,
\* least significant digit first, and m odd (so that one number has one
\* record); zero is [1, <<>>, 0] and NaN is the record of sign 0.  The numbers
\* of the statistics lie between 2^-120 and 2^21: no operation overflows or
\* leaves the normal range.
WideBits == 15
WideBase == 32768
DoubleBits == 53

RECURSIVE Wide(_)
\* the digits of the natural number n
Wide(n) == IF n = 0 THEN <<>> ELSE <<n % WideBase>> \o Wide(n \div WideBase)

RECURSIVE WideAddCarry(_, _, _)
\* a + b + carry
WideAddCarry(a, b, carry) ==
    IF a = <<>> /\ b = <<>> THEN Wide(carry)
    ELSE LET x == IF a = <<>> THEN 0 ELSE Head(a)
             y == IF b = <<>> THEN 0 ELSE Head(b)
             sum == x + y + carry
         IN <<sum % WideBase>> \o
            WideAddCarry(IF a = <<>> THEN a ELSE Tail(a),
                         IF b = <<>> THEN b ELSE Tail(b), sum \div WideBase)

\* a + b
WideAdd(a, b) ==
    IF a = <<>> THEN b
    ELSE IF b = <<>> THEN a
    ELSE WideAddCarry(a, b, 0)

RECURSIVE WideScale(_, _, _)
\* a * digit + carry, for one digit
WideScale(a, digit, carry) ==
    IF a = <<>> THEN Wide(carry)
    ELSE LET product == Head(a) * digit + carry
         IN <<product % WideBase>> \o WideScale(Tail(a), digit, product \div WideBase)

RECURSIVE WideMul(_, _)
\* a * b
WideMul(a, b) ==
    IF a = <<>> \/ b = <<>> THEN <<>>
    ELSE WideAdd(WideScale(a, Head(b), 0), <<0>> \o WideMul(a, Tail(b)))

RECURSIVE WideLess(_, _)
\* a < b (leading zero digits allowed)
WideLess(a, b) ==
    IF b = <<>> THEN FALSE
    ELSE IF a = <<>> THEN Head(b) > 0 \/ WideLess(a, Tail(b))
    ELSE \/ WideLess(Tail(a), Tail(b))
         \/ (~WideLess(Tail(b), Tail(a)) /\ Head(a) < Head(b))

RECURSIVE WideTrim(_)
\* a without its leading zero digits
WideTrim(a) ==
    IF a = <<>> THEN a
    ELSE IF a[Len(a)] = 0 THEN WideTrim(SubSeq(a, 1, Len(a) - 1))
    ELSE a

RECURSIVE WideSubBorrow(_, _, _)
\* a - b - borrow, for a >= b + borrow
WideSubBorrow(a, b, borrow) ==
    IF a = <<>> THEN <<>>
    ELSE LET difference == Head(a) - (IF b = <<>> THEN 0 ELSE Head(b)) - borrow
         IN <<IF difference < 0 THEN difference + WideBase ELSE difference>> \o
            WideSubBorrow(Tail(a), IF b = <<>> THEN b ELSE Tail(b),
                          IF difference < 0 THEN 1 ELSE 0)

\* a - b, for a >= b
WideSub(a, b) == WideTrim(WideSubBorrow(a, b, 0))

RECURSIVE BitLength(_)
\* the number of binary digits of the natural number n
BitLength(n) == IF n = 0 THEN 0 ELSE 1 + BitLength(n \div 2)

\* the number of binary digits of a (a without leading zero digits)
WideBitLength(a) ==
    IF a = <<>> THEN 0 ELSE WideBits * (Len(a) - 1) + BitLength(a[Len(a)])

\* a * 2^k
WideShiftLeft(a, k) ==
    IF a = <<>> \/ k = 0 THEN a
    ELSE [i \in 1..(k \div WideBits) |-> 0] \o WideScale(a, 2 ^ (k % WideBits), 0)

\* floor(a / p) for p = 2^j, j < WideBits: digit i takes the high part of
\* digit i and the low part of digit i + 1
WideDropBits(a, p) ==
    [i \in 1..Len(a) |->
        a[i] \div p + (IF i < Len(a) THEN (a[i + 1] % p) * (WideBase \div p) ELSE 0)]

\* floor(a / 2^k)
WideShiftRight(a, k) ==
    IF k \div WideBits >= Len(a) THEN <<>>
    ELSE WideTrim(WideDropBits(SubSeq(a, k \div WideBits + 1, Len(a)), 2 ^ (k % WideBits)))

\* binary digit k of a (digit 0 is the units)
WideBit(a, k) ==
    IF k \div WideBits >= Len(a) THEN 0
    ELSE (a[k \div WideBits + 1] \div 2 ^ (k % WideBits)) % 2

\* the binary digits 0..k-1 of a are all zero
WideZeroBelow(a, k) ==
    /\ \A i \in 1..Min(Len(a), k \div WideBits) : a[i] = 0
    /\ k \div WideBits < Len(a) => a[k \div WideBits + 1] % 2 ^ (k % WideBits) = 0

RECURSIVE TrailingZeros(_)
\* the number of zero binary digits at the low end of n > 0
TrailingZeros(n) == IF n % 2 = 1 THEN 0 ELSE 1 + TrailingZeros(n \div 2)

RECURSIVE WideTrailingZeros(_)
\* the number of zero binary digits at the low end of a > 0
WideTrailingZeros(a) ==
    IF Head(a) = 0 THEN WideBits + WideTrailingZeros(Tail(a)) ELSE TrailingZeros(Head(a))

\* one step of the long division by n: the digit under the quotient and the
\* remainder of the digits above it
WideDivideDigit(high, digit, n) ==
    [q |-> <<(high.r * WideBase + digit) \div n>> \o high.q,
     r |-> (high.r * WideBase + digit) % n]

RECURSIVE WideDivide(_, _)
\* the quotient q and the remainder r of a by the natural number n, 0 < n < WideBase
WideDivide(a, n) ==
    IF a = <<>> THEN [q |-> <<>>, r |-> 0]
    ELSE WideDivideDigit(WideDivide(Tail(a), n), Head(a), n)

DoubleZero == [s |-> 1, m |-> <<>>, e |-> 0]
DoubleNaN == [s |-> 0, m |-> <<>>, e |-> 0]

\* the record of s * m * 2^e, a number a double holds exactly
Double(s, m, e) ==
    IF m = <<>> THEN DoubleZero
    ELSE IF Head(m) % 2 = 1 THEN [s |-> s, m |-> m, e |-> e]
    ELSE [s |-> s, m |-> WideShiftRight(m, WideTrailingZeros(m)),
          e |-> e + WideTrailingZeros(m)]

\* s * m * 2^e made a double, m of bits > DoubleBits binary digits: the
\* nearest number of DoubleBits digits, the even one of two nearest numbers
RoundBits(s, m, e, bits) ==
    IF /\ WideBit(m, bits - DoubleBits - 1) = 1
       /\ (~WideZeroBelow(m, bits - DoubleBits - 1) \/ WideBit(m, bits - DoubleBits) = 1)
    THEN Double(s, WideAdd(WideShiftRight(m, bits - DoubleBits), <<1>>), e + bits - DoubleBits)
    ELSE Double(s, WideShiftRight(m, bits - DoubleBits), e + bits - DoubleBits)

\* the double nearest to s * m * 2^e (m without leading zero digits): the
\* result every operation on doubles rounds to
RoundToDouble(s, m, e) ==
    IF WideBits * Len(m) <= DoubleBits \/ WideBitLength(m) <= DoubleBits THEN Double(s, m, e)
    ELSE RoundBits(s, m, e, WideBitLength(m))

\* the integer n as a double
DoubleOfInteger(n) ==
    IF n = 0 THEN DoubleZero
    ELSE IF n < 0 THEN Double(-1, Wide(-n), 0)
    ELSE Double(1, Wide(n), 0)

\* x + y for numbers of the digits a and b in units of 2^e
AddAligned(x, y, a, b, e) ==
    IF x.s = y.s THEN RoundToDouble(x.s, WideAdd(a, b), e)
    ELSE IF a = b THEN DoubleZero
    ELSE IF WideLess(a, b) THEN RoundToDouble(y.s, WideSub(b, a), e)
    ELSE RoundToDouble(x.s, WideSub(a, b), e)

\* x + y
DoubleAdd(x, y) ==
    IF x.s = 0 \/ y.s = 0 THEN DoubleNaN
    ELSE IF x.m = <<>> THEN y
    ELSE IF y.m = <<>> THEN x
    ELSE AddAligned(x, y, WideShiftLeft(x.m, x.e - Min(x.e, y.e)),
                    WideShiftLeft(y.m, y.e - Min(x.e, y.e)), Min(x.e, y.e))

\* x - y
DoubleSubtract(x, y) == DoubleAdd(x, IF y.m = <<>> THEN y ELSE [y EXCEPT !.s = -@])

\* x * y
DoubleMultiply(x, y) ==
    IF x.s = 0 \/ y.s = 0 THEN DoubleNaN
    ELSE RoundToDouble(x.s * y.s, WideTrim(WideMul(x.m, y.m)), x.e + y.e)

\* the double nearest to a quotient of floor q and remainder r: with r # 0 the
\* quotient lies strictly between q and q + 1, and 2 * q + 1 in units half
\* as large rounds as it does (q has more than DoubleBits + 1 binary digits)
RoundQuotient(s, quotient, e) ==
    IF quotient.r = 0 THEN RoundToDouble(s, WideTrim(quotient.q), e)
    ELSE RoundToDouble(s, WideScale(WideTrim(quotient.q), 2, 1), e - 1)

\* x / n for an odd natural number n > 1: the quotient of the digits of x
\* with 5 more digits (75 binary digits) at the low end
DivideOdd(x, n) ==
    RoundQuotient(x.s, WideDivide(<<0, 0, 0, 0, 0>> \o x.m, n), x.e - 5 * WideBits)

\* x / n for a natural number n, 0 < n < WideBase, of twos low zero binary
\* digits: a division by 2^twos is exact
DivideBy(x, n, twos) ==
    IF x.m = <<>> THEN x
    ELSE IF n = 2 ^ twos THEN [x EXCEPT !.e = @ - twos]
    ELSE DivideOdd([x EXCEPT !.e = @ - twos], n \div 2 ^ twos)

\* x / n for a natural number n < WideBase (0 / 0 is NaN; a sum of no
\* numbers is the only dividend of a division by 0)
DoubleDivide(x, n) ==
    IF x.s = 0 \/ n = 0 THEN DoubleNaN ELSE DivideBy(x, n, TrailingZeros(n))

\* x < 0
IsNegative(x) == x.s = -1 /\ x.m # <<>>

\* x < y (false when one of them is NaN)
DoubleLess(x, y) == IsNegative(DoubleSubtract(x, y))

\* ------------------------------------------------------- Statistics Module
\* average(colors) of a list of sampled colors: the channel sums, integers
\* computed without rounding, kept with the divisor colors.length.  The
\* double avg.r /= colors.length leaves in avg.r is Quotient(avg, "r").
average(colors) ==
    [r |-> SumChannel(colors, "r", Len(colors)),
     g |-> SumChannel(colors, "g", Len(colors)),
     b |-> SumChannel(colors, "b", Len(colors)),
     n |-> Len(colors)]

\* avg[ch] /= colors.length
Quotient(avg, ch) == DoubleDivide(DoubleOfInteger(avg[ch]), avg.n)

RECURSIVE DoubleSum(_, _, _, _)
\* avg[ch] += colors[idx][ch] for the colors k.., from avg[ch] = sum (once
\* NaN, a sum stays NaN)
DoubleSum(colors, ch, k, sum) ==
    IF k > Len(colors) \/ sum.s = 0 THEN sum
    ELSE DoubleSum(colors, ch, k + 1, DoubleAdd(sum, Quotient(colors[k], ch)))

\* channel ch of average(colors) for a list of averaged colors
DoubleMean(colors, ch) == DoubleDivide(DoubleSum(colors, ch, 1, DoubleZero), Len(colors))

\* (avg[ch] - colors[idx][ch]) * (avg[ch] - colors[idx][ch])
DiffSquared(diff) == DoubleMultiply(diff, diff)

RECURSIVE SumOfDiffsSquared(_, _, _, _, _)
\* sumOfDiffsSquared[ch] += (avg[ch] - colors[idx][ch]) squared for the
\* colors k.., from sumOfDiffsSquared[ch] = sum
SumOfDiffsSquared(colors, ch, avg, k, sum) ==
    IF k > Len(colors) \/ sum.s = 0 THEN sum
    ELSE SumOfDiffsSquared(colors, ch, avg, k + 1,
             DoubleAdd(sum, DiffSquared(DoubleSubtract(avg, Quotient(colors[k], ch)))))

\* sumOfDiffsSquared[ch] / colors.length for the average avg[ch] (NaN for the
\* average of no colors, 0 / 0)
VarianceAround(colors, ch, avg) ==
    IF avg.s = 0 THEN DoubleNaN
    ELSE DoubleDivide(SumOfDiffsSquared(colors, ch, avg, 1, DoubleZero), Len(colors))

\* sumOfDiffsSquared[ch] / colors.length as standardDeviation computes it, one
\* rounding after the other
RoundedVariance(colors, ch) == VarianceAround(colors, ch, DoubleMean(colors, ch))

\* When colors.length and every divisor of the averaged colors are powers of
\* two, no operation of standardDeviation rounds: the averaged channels are
\* multiples of 1/L for the largest divisor L, the sums, the average and the
\* differences multiples of 1/(L * N), their squares and the sum of the
\* squares multiples of 1/(L * N)^2, and with channels up to MaxChannel and
\* (N * MaxChannel * L)^2 below 2^31 every one of them has fewer than
\* DoubleBits binary digits.  The double the code computes is then the
\* fraction sum((mean - x)^2) / N = (N * sum(x^2) - sum(x)^2) / (N * L)^2.
MaxChannel == 255

RECURSIVE IsPowerOfTwo(_)
\* the natural number n is 1, 2, 4, 8, ...
IsPowerOfTwo(n) == n = 1 \/ (n > 1 /\ n % 2 = 0 /\ IsPowerOfTwo(n \div 2))

\* the largest of the divisors of the averaged colors
LargestDivisor(colors) ==
    IF colors = <<>> THEN 1
    ELSE CHOOSE d \in {colors[i].n : i \in 1..Len(colors)} :
             \A i \in 1..Len(colors) : colors[i].n <= d

\* channel ch of averaged color a as a multiple of 1/L
Scaled(a, ch, L) == a[ch] * (L \div a.n)

RECURSIVE SumScaled(_, _, _, _)
\* the sum of the scaled channel over the first k averaged colors
SumScaled(avgs, ch, L, k) ==
    IF k = 0 THEN 0 ELSE Scaled(avgs[k], ch, L) + SumScaled(avgs, ch, L, k - 1)

RECURSIVE SumScaledSquares(_, _, _, _)
\* the sum of the squares of the scaled channel over the first k averaged colors
SumScaledSquares(avgs, ch, L, k) ==
    IF k = 0 THEN 0
    ELSE Scaled(avgs[k], ch, L) * Scaled(avgs[k], ch, L) + SumScaledSquares(avgs, ch, L, k - 1)

\* the operations of standardDeviation on channel ch of N averaged colors of
\* largest divisor L do not round
NoRounding(colors, ch, N, L) ==
    /\ N > 0 /\ IsPowerOfTwo(N)
    /\ \A i \in 1..N :
           /\ IsPowerOfTwo(colors[i].n)
           /\ 0 <= colors[i][ch] /\ colors[i][ch] <= MaxChannel * colors[i].n
    /\ L <= 46340 \div (N * MaxChannel)

\* the fraction of the variance of channel ch, as a double
UnroundedVariance(colors, ch, N, L) ==
    Double(1, Wide(N * SumScaledSquares(colors, ch, L, N)
                   - SumScaled(colors, ch, L, N) * SumScaled(colors, ch, L, N)),
           -(2 * (BitLength(N * L) - 1)))

\* sumOfDiffsSquared[ch] / colors.length for N colors of largest divisor L
VarianceOf(colors, ch, N, L) ==
    IF NoRounding(colors, ch, N, L) THEN UnroundedVariance(colors, ch, N, L)
    ELSE RoundedVariance(colors, ch)

\* sumOfDiffsSquared[ch] / colors.length, the argument of Math.sqrt
Variance(colors, ch) == VarianceOf(colors, ch, Len(colors), LargestDivisor(colors))

\* standardDeviation(colors) before the square roots are taken: per channel
\* the double given to Math.sqrt
standardDeviation(colors) ==
    [r |-> Variance(colors, "r"), g |-> Variance(colors, "g"), b |-> Variance(colors, "b")]

\* Math.round of the fraction sum/n (n > 0): floor(sum/n + 1/2)
RoundFraction(sum, n) == (2 * sum + n) \div (2 * n)

\* mutant of round: Math.floor in the place of Math.round
round_Floor(avg) ==
    [r |-> avg.r \div avg.n, g |-> avg.g \div avg.n, b |-> avg.b \div avg.n]

round(avg) ==
    [r |-> RoundFraction(avg.r, avg.n),
     g |-> RoundFraction(avg.g, avg.n),
     b |-> RoundFraction(avg.b, avg.n)]

\* mutant of isEqual: every stable window counts as a change
isEqual_Never(colorA, colorB) == FALSE

isEqual(colorA, colorB) ==
    colorA.r = colorB.r /\ colorA.g = colorB.g /\ colorA.b = colorB.b

\* Math.sqrt(v) < 3.0 for a double v.  Math.sqrt rounds the square root to
\* the nearest double, so it is monotonic and Math.sqrt(9) = 3: v >= 9 gives
\* a root >= 3.  The largest double below 9 is 9 - 2^-49, its square root is
\* below 3 - 2^-49 / 6, which is nearer to 3 - 2^-51, the largest double
\* below 3, than to 3: v < 9 gives a root < 3.  NaN compares false.
BelowThreshold(v) == DoubleLess(v, DoubleOfInteger(StabilityThreshold * StabilityThreshold))

\* stdev.r < 3.0 && stdev.g < 3.0 && stdev.b < 3.0
allBelowThreshold(stdev) ==
    BelowThreshold(stdev.r) /\ BelowThreshold(stdev.g) /\ BelowThreshold(stdev.b)

\* mutant of areStable: the comparison with the threshold is inverted
areStable_Inverted(avgs) ==
    LET stdev == standardDeviation(avgs)
    IN ~BelowThreshold(stdev.r) /\ ~BelowThreshold(stdev.g) /\ ~BelowThreshold(stdev.b)

areStable(avgs) == allBelowThreshold(standardDeviation(avgs))

\* array.slice(0, k)
slice(seq, k) == SubSeq(seq, 1, Min(k, Len(seq)))

\* ------------------------------------------------------------ Spec Matcher
\* mutant of isMatch: the upper ends of the ranges are not tested
isMatch_LowerOnly(spec, c) ==
    /\ c.r >= spec.r.value - spec.r.tolerance
    /\ c.g >= spec.g.value - spec.g.tolerance
    /\ c.b >= spec.b.value - spec.b.tolerance

\* mutant of isMatch: the ends of the ranges are excluded
isMatch_Exclusive(spec, c) ==
    /\ c.r > spec.r.value - spec.r.tolerance
    /\ c.r < spec.r.value + spec.r.tolerance
    /\ c.g > spec.g.value - spec.g.tolerance
    /\ c.g < spec.g.value + spec.g.tolerance
    /\ c.b > spec.b.value - spec.b.tolerance
    /\ c.b < spec.b.value + spec.b.tolerance

\* the range test of spec.isMatch, on the color c it resolved
isMatch(spec, c) ==
    /\ c.r >= spec.r.value - spec.r.tolerance
    /\ c.r <= spec.r.value + spec.r.tolerance
    /\ c.g >= spec.g.value - spec.g.tolerance
    /\ c.g <= spec.g.value + spec.g.tolerance
    /\ c.b >= spec.b.value - spec.b.tolerance
    /\ c.b <= spec.b.value + spec.b.tolerance

\* ------------------------------------------------------------------- state
VARIABLES
    config,             \* [stability, sampleFrequency]
    rawColors,          \* rolling log of sampled colors, newest first
    avgColors,          \* rolling averages over rawColors, newest first
    latestStableColor,  \* the stable color
    specsToHandlers,    \* the Map, in insertion order: <<[spec, handlers]>>,
                        \*   handlers = <<[id, fn, isRunning]>>
    timers,             \* pending setTimeout(collectSamples) callbacks
    tokens,             \* id -> completion tokens held by "async" bodies, not yet called
    nextId,             \* identity of the next handler record
    scan,               \* the scan object of startScan: [started, enabled, count, values,
                        \*   pending]; pending = scheduled setTimeout(scanForColor) callbacks
    earlierScan,        \* the scan object of the call of startScan before the last one
    getColorFn,         \* the sample function wired in at construction: "fake" (given by
                        \*   the program) or "default" (the global getColor, which throws)
    \* history, for stating the properties
    sampleLog,          \* every sample pulled so far, oldest first
    events,             \* what the last top-level call did, in order
    fired,              \* id -> invocations of the handler record so far
    completed,          \* id -> completion-token calls for the record so far
    pubs,               \* id -> publications matching the record's spec since it was registered
    removed,            \* [id, spec] of the records deregistered so far
    reconfigured,       \* the stability was changed after the first sample
    configuredAt,       \* how many samples were taken when the stability last changed
    scanLog,            \* what every scan tick so far read from the sample source
    returned            \* what calls of getColorSpec, average and standardDeviation
                        \*   returned: <<[op, ...]>>

vars == <<config, rawColors, avgColors, latestStableColor, specsToHandlers, timers,
          tokens, nextId, scan, getColorFn, sampleLog, events, fired, completed, pubs,
          removed, reconfigured, configuredAt, scanLog, returned, earlierScan>>

Ids == 1..MaxRegs

RECURSIVE Zeros(_)
\* the counters of the first n handler records, all 0
Zeros(n) == IF n = 0 THEN <<>> ELSE Append(Zeros(n - 1), 0)

\* an entry of the history variable events
Event(op, step, depth, id, spec, color, from) ==
    [op |-> op, step |-> step, depth |-> depth, id |-> id, spec |-> spec,
     color |-> color, from |-> from]

\* the controller during one top-level call: the program state, the samples
\* the sample source returns to this call (source), whether the call asked
\* for more than those (short) and whether it ended with an exception (thrown)
Machine(source) ==
    [config |-> config, rawColors |-> rawColors, avgColors |-> avgColors,
     latestStableColor |-> latestStableColor, specsToHandlers |-> specsToHandlers,
     tokens |-> tokens, sampleLog |-> sampleLog, events |-> <<>>, fired |-> fired,
     completed |-> completed, pubs |-> pubs, source |-> source, short |-> FALSE,
     active |-> 0, getColorFn |-> getColorFn, thrown |-> FALSE, nextId |-> nextId]

\* the ids of the handler records registered for the specs that match color
RECURSIVE MatchingIds(_, _, _)
MatchingIds(registry, color, i) ==
    IF i = 0 THEN {}
    ELSE MatchingIds(registry, color, i - 1) \cup
         (IF Within(SpecDef(registry[i].spec), color)
          THEN {registry[i].handlers[j].id : j \in 1..Len(registry[i].handlers)}
          ELSE {})

\* mutant of clearIsRunning: the completion token leaves the flag set
clearIsRunning_Noop(registry, id) == registry

\* the Map with isRunning = false in the record of identity id, if it holds it
clearIsRunning(registry, id) ==
    IF \E i \in 1..Len(registry) : \E j \in 1..Len(registry[i].handlers) :
            registry[i].handlers[j].id = id
    THEN LET i == CHOOSE i \in 1..Len(registry) :
                    \E j \in 1..Len(registry[i].handlers) : registry[i].handlers[j].id = id
             j == CHOOSE j \in 1..Len(registry[i].handlers) : registry[i].handlers[j].id = id
         IN [registry EXCEPT ![i].handlers[j].isRunning = FALSE]
    ELSE registry

\* the history pubs after the publication of color: one more for every
\* registered record whose spec holds color
RECURSIVE countPublication(_, _, _, _)
countPublication(p, registry, color, id) ==
    IF id = 0 THEN p
    ELSE countPublication(
            IF id \in MatchingIds(registry, color, Len(registry))
            THEN [p EXCEPT ![id] = @ + 1] ELSE p,
            registry, color, id - 1)

\* the completion token of record id: function () { handler.isRunning = false; }
\* The closure holds the record itself, wherever (and whether) the Map holds it.
done(m, id) ==
    [m EXCEPT
        !.specsToHandlers = clearIsRunning(@, id),
        !.completed[id] = @ + 1,
        !.events = Append(@, Event("done", Len(m.sampleLog), m.active, id, 0, NoColor, NoColor))]

\* mutant of isEligible: the in-flight guard is missing
isEligible_Always(handler) == TRUE

\* if (!handler.isRunning)
isEligible(handler) == ~handler.isRunning

\* mutant of hasEnoughSamples: the window test is off by one
hasEnoughSamples_OffByOne(avgs, cfg) == Len(avgs) >= cfg.stability - 1

\* if (avgColors.length >= config.stability)
hasEnoughSamples(avgs, cfg) == Len(avgs) >= cfg.stability

\* the index of spec in the Map, 0 when it has no entry
EntryOf(registry, spec) ==
    IF \E i \in 1..Len(registry) : registry[i].spec = spec
    THEN CHOOSE i \in 1..Len(registry) : registry[i].spec = spec
    ELSE 0

\* mutant of whenMatches: a new record is put in front of the list
whenMatches_Unshift(registry, spec, handler, id) ==
    IF handler # NotAFunction
    THEN LET record == [id |-> id, fn |-> handler, isRunning |-> FALSE]
             i == EntryOf(registry, spec)
         IN IF i = 0
            THEN Append(registry, [spec |-> spec, handlers |-> <<record>>])
            ELSE [registry EXCEPT ![i].handlers = <<record>> \o @]
    ELSE SelectSeq(registry, LAMBDA e : e.spec # spec)

\* mutant of whenMatches: a non-function argument removes nothing
whenMatches_NoDelete(registry, spec, handler, id) ==
    IF handler # NotAFunction
    THEN LET record == [id |-> id, fn |-> handler, isRunning |-> FALSE]
             i == EntryOf(registry, spec)
         IN IF i = 0
            THEN Append(registry, [spec |-> spec, handlers |-> <<record>>])
            ELSE [registry EXCEPT ![i].handlers = Append(@, record)]
    ELSE registry

\* mutant of whenMatches: the Map is keyed by the values of the spec
whenMatches_ByValue(registry, spec, handler, id) ==
    IF handler # NotAFunction
    THEN LET record == [id |-> id, fn |-> handler, isRunning |-> FALSE]
         IN IF \A i \in 1..Len(registry) : SpecDef(registry[i].spec) # SpecDef(spec)
            THEN Append(registry, [spec |-> spec, handlers |-> <<record>>])
            ELSE [i \in 1..Len(registry) |->
                    IF SpecDef(registry[i].spec) = SpecDef(spec)
                    THEN [registry[i] EXCEPT !.handlers = Append(@, record)]
                    ELSE registry[i]]
    ELSE SelectSeq(registry, LAMBDA e : SpecDef(e.spec) # SpecDef(spec))

\* the Map after spec.whenMatches(handler); id is the identity of the new record
whenMatches(registry, spec, handler, id) ==
    IF handler # NotAFunction
    THEN LET record == [id |-> id, fn |-> handler, isRunning |-> FALSE]
             i == EntryOf(registry, spec)
         IN IF i = 0
            THEN Append(registry, [spec |-> spec, handlers |-> <<record>>])
            ELSE [registry EXCEPT ![i].handlers = Append(@, record)]
    ELSE SelectSeq(registry, LAMBDA e : e.spec # spec)

\* the body of a "register" callback calls whenMatches(handler), handler the
\* "sync" callback, on the spec object 2, and then done().  A run registers
\* at most MaxRegs records: the call is cut short beyond them.
registerInBody(m, step) ==
    IF m.nextId > MaxRegs THEN [m EXCEPT !.short = TRUE]
    ELSE [m EXCEPT
            !.specsToHandlers = whenMatches(@, RegisteredInBody, "sync", m.nextId),
            !.nextId = @ + 1,
            !.events = Append(@, Event("register", step, m.active, m.nextId,
                                       RegisteredInBody, NoColor, NoColor))]

RECURSIVE collectSample(_)
RECURSIVE getStableColor(_)
RECURSIVE runHandler(_, _, _, _)
RECURSIVE invokeHandlers(_, _, _, _, _)
RECURSIVE invokeSpecs(_, _, _, _)

\* handler.fn(done, color, spec): the body of the callback of record h
runHandler(m, h, color, step) ==
    IF h.fn = "sync" THEN done(m, h.id)
    ELSE IF h.fn = "reenter" THEN done(getStableColor(m), h.id)
    ELSE IF h.fn = "register" THEN done(registerInBody(m, step), h.id)
    ELSE [m EXCEPT !.tokens[h.id] = @ + 1]

\* the inner loop of invokeHandlersMatching over handlers[idx], idx = j..
invokeHandlers(m, color, step, i, j) ==
    IF j > Len(m.specsToHandlers[i].handlers) THEN m
    ELSE
        LET handler == m.specsToHandlers[i].handlers[j]
        IN IF isEligible(handler)
           THEN LET m1 == [m EXCEPT
                            !.specsToHandlers[i].handlers[j].isRunning = TRUE,
                            !.fired[handler.id] = @ + 1,
                            !.events = Append(@, Event("invoke", step, m.active, handler.id,
                                                       m.specsToHandlers[i].spec, color,
                                                       NoColor))]
                IN invokeHandlers(runHandler(m1, handler, color, step), color, step, i, j + 1)
           ELSE invokeHandlers(m, color, step, i, j + 1)

\* the outer loop of invokeHandlersMatching over the Map's entries i..
invokeSpecs(m, color, step, i) ==
    IF i > Len(m.specsToHandlers) THEN m
    ELSE IF isMatch(SpecDef(m.specsToHandlers[i].spec), color)
         THEN invokeSpecs(invokeHandlers(m, color, step, i, 1), color, step, i + 1)
         ELSE invokeSpecs(m, color, step, i + 1)

invokeHandlersMatching(m, color, step) ==
    LET m1 == invokeSpecs([m EXCEPT !.active = @ + 1], color, step, 1)
    IN [m1 EXCEPT !.active = @ - 1]

\* an entry of events for the sample a step pulled: the stable color the step
\* found (from) and both windows after their unshift
SampleEvent(step, depth, sample, from, raw, avgs) ==
    [op |-> "pull", step |-> step, depth |-> depth, id |-> 0, spec |-> 0,
     color |-> sample, from |-> from, raw |-> raw, avgs |-> avgs]

\* latestStableColor = nextStableColor; invokeHandlersMatching(latestStableColor)
publish(m1, nextStableColor, step, depth) ==
    invokeHandlersMatching(
        [m1 EXCEPT
            !.latestStableColor = nextStableColor,
            !.pubs = countPublication(@, m1.specsToHandlers, nextStableColor, MaxRegs),
            !.events = Append(@, Event("publish", step, depth, 0, 0, nextStableColor,
                                       m1.latestStableColor))],
        nextStableColor, step)

\* mutant of evict: the slices keep the oldest entries
evict_Newest(m) ==
    [m EXCEPT !.rawColors = SubSeq(@, Len(@) - Min(m.config.stability - 1, Len(@)) + 1, Len(@)),
              !.avgColors = SubSeq(@, Len(@) - Min(m.config.stability - 1, Len(@)) + 1, Len(@))]

\* rawColors = rawColors.slice(0, config.stability - 1), and avgColors alike
evict(m) ==
    [m EXCEPT !.rawColors = slice(@, m.config.stability - 1),
              !.avgColors = slice(@, m.config.stability - 1)]

\* the history logs the end of the sample step and the stable color it left
endStep(m, step, depth) ==
    [m EXCEPT !.events = Append(@, Event("end", step, depth, 0, 0, m.latestStableColor,
                                         NoColor))]

collectSample(m) ==
    IF m.getColorFn = "default"
    THEN \* getColorFn() is the global getColor: throw("Undefined getColorFn. ...")
         [m EXCEPT !.thrown = TRUE,
                   !.events = Append(@, Event("throw", Len(m.sampleLog), m.active, 0, 0,
                                              NoColor, m.latestStableColor))]
    ELSE IF m.source = <<>> THEN [m EXCEPT !.short = TRUE]
    ELSE
        LET sample == Head(m.source)
            step == Len(m.sampleLog) + 1
            raw == <<sample>> \o m.rawColors
            currAvgColor == average(raw)
            avg == <<currAvgColor>> \o m.avgColors
            m1 == [m EXCEPT
                    !.source = Tail(@),
                    !.sampleLog = Append(@, sample),
                    !.rawColors = raw,
                    !.avgColors = avg,
                    !.events = Append(@, SampleEvent(step, m.active, sample,
                                                     m.latestStableColor, raw, avg))]
            nextStableColor == round(currAvgColor)
        IN endStep(IF hasEnoughSamples(avg, m.config)
                   THEN evict(IF areStable(avg)
                                 /\ ~isEqual(nextStableColor, m.latestStableColor)
                              THEN publish(m1, nextStableColor, step, m.active)
                              ELSE m1)
                   ELSE m1,
                   step, m.active)

\* the history logs a call of getStableColor()
called(m) ==
    [m EXCEPT !.events = Append(@, Event("call", Len(m.sampleLog), m.active, 0, 0, NoColor,
                                         m.latestStableColor))]

\* return latestStableColor, when the call has not ended with an exception;
\* the history logs the color returned
returnStableColor(m1, depth) ==
    IF m1.thrown THEN m1
    ELSE [m1 EXCEPT !.events = Append(@, Event("return", Len(m1.sampleLog), depth, 0, 0,
                                               m1.latestStableColor, NoColor))]

\* mutant of getStableColor: the sampling mode is not tested
getStableColor_AlwaysSample(m) == returnStableColor(collectSample(called(m)), m.active)

\* getStableColor(): the state after the call
getStableColor(m) ==
    returnStableColor(IF m.config.sampleFrequency = 0 THEN collectSample(called(m))
                      ELSE called(m),
                      m.active)

\* ------------------------------------------------------------------ Scanner
\* var values = {r: {min: 255, max: 0}, g: {min: 255, max: 0}, b: {min: 255, max: 0}}
Extrema(min, max) == [min |-> min, max |-> max]
InitialValues == [r |-> Extrema(255, 0), g |-> Extrema(255, 0), b |-> Extrema(255, 0)]

\* the program before it calls startScan
NoScan == [started |-> FALSE, enabled |-> FALSE, count |-> 0, values |-> InitialValues,
           pending |-> 0]

\* the colors the sample source returns to the scan
D1 == Color(1, 40, 101)
D2 == Color(2, 45, 101)
D3 == Color(6, 50, 111)
ScanColors == {Off, D1, D2, D3, Color(0, 0, 7)}

\* c.r === 0 && c.g === 0 && c.b === 0
isOff(c) == c.r = 0 /\ c.g = 0 /\ c.b = 0

\* mutant of widen: Math.min and Math.max are swapped
widen_Swapped(values, c) ==
    [r |-> Extrema(Max(values.r.min, c.r), Min(values.r.max, c.r)),
     g |-> Extrema(Max(values.g.min, c.g), Min(values.g.max, c.g)),
     b |-> Extrema(Max(values.b.min, c.b), Min(values.b.max, c.b))]

\* values after Math.min / Math.max with the reading c on every channel
widen(values, c) ==
    [r |-> Extrema(Min(values.r.min, c.r), Max(values.r.max, c.r)),
     g |-> Extrema(Min(values.g.min, c.g), Max(values.g.max, c.g)),
     b |-> Extrema(Min(values.b.min, c.b), Max(values.b.max, c.b))]

\* mutant of scanForColor: the off reading is accumulated like any other
scanForColor_CountsOff(sc, c) ==
    IF sc.enabled
    THEN [sc EXCEPT !.values = widen(@, c), !.count = @ + 1, !.pending = @ + 1]
    ELSE sc

\* mutant of scanForColor: the enabled flag is not tested
scanForColor_IgnoresStop(sc, c) ==
    IF ~isOff(c)
    THEN [sc EXCEPT !.values = widen(@, c), !.count = @ + 1, !.pending = @ + 1]
    ELSE [sc EXCEPT !.pending = @ + 1]

\* scanForColor(freq), where getColorFn() returns c if it is called
scanForColor(sc, c) ==
    IF sc.enabled
    THEN IF ~isOff(c)
         THEN [sc EXCEPT !.values = widen(@, c), !.count = @ + 1, !.pending = @ + 1]
         ELSE [sc EXCEPT !.pending = @ + 1]
    ELSE sc

\* mutant of specChannel: the tolerance is taken from the rounded value
specChannel_FromValue(v) ==
    Channel(RoundFraction(v.max + v.min, 2), v.max - RoundFraction(v.max + v.min, 2))

\* one channel of getColorSpec(): avg = (max + min) / 2,
\* {value: Math.round(avg), tolerance: Math.round(max - avg)}
specChannel(v) ==
    Channel(RoundFraction(v.max + v.min, 2), RoundFraction(2 * v.max - (v.max + v.min), 2))

\* scan.getColorSpec()
getColorSpec(sc) ==
    [r |-> specChannel(sc.values.r), g |-> specChannel(sc.values.g),
     b |-> specChannel(sc.values.b)]

\* scan.getCount()
getCount(sc) == sc.count

\* ----------------------------------------------------------------- actions
\* the state of a controller after construction, whatever sample function it got
Constructed ==
    /\ config = [stability |-> InitialStability, sampleFrequency |-> InitialFrequency]
    /\ rawColors = <<>>
    /\ avgColors = <<>>
    /\ latestStableColor = Off
    /\ specsToHandlers = <<>>
    /\ timers = 0
    /\ tokens = Zeros(MaxRegs)
    /\ nextId = 1
    /\ sampleLog = <<>>
    /\ events = <<>>
    /\ fired = Zeros(MaxRegs)
    /\ completed = Zeros(MaxRegs)
    /\ pubs = Zeros(MaxRegs)
    /\ removed = {}
    /\ reconfigured = FALSE
    /\ configuredAt = 0
    /\ scan = NoScan
    /\ earlierScan = NoScan
    /\ scanLog = <<>>
    /\ returned = <<>>

\* the state after construction with a sample function:
\* newColorSensorController(getColorFn)
Init == getColorFn = "fake" /\ Constructed

\* the state after construction without one: newColorSensorController()
InitUnwired == getColorFn = "default" /\ Constructed

\* the sample sequences the sample source can return to one top-level call
Sources ==
    UNION {[1..k -> Colors] : k \in 0..(MaxSamples - Len(sampleLog))}

\* the variables a sampling call can change take the values of machine m
Commit(m) ==
    /\ ~m.short
    /\ m.source = <<>>
    /\ rawColors' = m.rawColors
    /\ avgColors' = m.avgColors
    /\ latestStableColor' = m.latestStableColor
    /\ specsToHandlers' = m.specsToHandlers
    /\ tokens' = m.tokens
    /\ sampleLog' = m.sampleLog
    /\ events' = m.events
    /\ fired' = m.fired
    /\ completed' = m.completed
    /\ pubs' = m.pubs

\* controller.getColor()
GetColor ==
    /\ \E source \in Sources : Commit(getStableColor(Machine(source)))
    /\ UNCHANGED <<config, timers, nextId, removed, reconfigured, configuredAt,
                   scan, scanLog, getColorFn, returned, earlierScan>>

\* mutant of collectSamples: the frequency is not tested
collectSamples_Always(m) == collectSample(m)

\* collectSamples() up to its setTimeout
collectSamples(m) ==
    IF m.config.sampleFrequency # 0 THEN collectSample(m) ELSE m

\* the variables after collectSamples() has left machine m: setTimeout (line
\* 100) was reached, and scheduled timers are pending, when the frequency is
\* not 0 and collectSample() returned
loop(m, scheduled) ==
    /\ Commit(m)
    /\ timers' = IF m.config.sampleFrequency # 0 /\ ~m.thrown THEN scheduled
                 ELSE scheduled - 1

newStability(newConfig) ==
    IF newConfig.stability # Undefined THEN newConfig.stability ELSE DefaultStability

newFrequency(newConfig) ==
    IF newConfig.frequency # Undefined THEN newConfig.frequency ELSE DefaultFrequency

\* an entry of events for a call of configureSampling: the object it was given
ConfigEvent(newConfig) == [op |-> "configure", newConfig |-> newConfig]

\* configureSampling(newConfig), the sample source returning source to the
\* call, in a run that lets at most limit timers be pending.  setTimeout
\* (line 100) is reached when collectSample() has returned.
configureSamplingWithin(newConfig, source, limit) ==
    LET cfg == [stability |-> newStability(newConfig),
                sampleFrequency |-> newFrequency(newConfig)]
    IN /\ cfg.sampleFrequency # 0 => timers < limit
       /\ config' = cfg
       /\ loop(collectSamples([Machine(source) EXCEPT
                                  !.config = cfg, !.events = <<ConfigEvent(newConfig)>>]),
               timers + 1)
       /\ reconfigured' = (reconfigured \/
                           (sampleLog # <<>> /\ cfg.stability # config.stability))
       /\ configuredAt' = IF cfg.stability # config.stability THEN Len(sampleLog)
                          ELSE configuredAt
       /\ UNCHANGED <<nextId, removed, scan, scanLog, getColorFn, returned, earlierScan>>

configureSampling(newConfig, source) == configureSamplingWithin(newConfig, source, MaxTimers)

\* controller.configureSampling(newConfig)
ConfigureSampling ==
    \E stability \in 1..MaxStability, frequency \in Frequencies, source \in Sources :
        configureSampling([stability |-> stability, frequency |-> frequency], source)

\* a pending setTimeout(collectSamples, ...) fires
TimerTick ==
    /\ timers > 0
    /\ \E source \in Sources : loop(collectSamples(Machine(source)), timers)
    /\ UNCHANGED <<config, nextId, removed, reconfigured, configuredAt, scan, scanLog,
                   getColorFn, returned, earlierScan>>

\* the ids of the records registered for spec
IdsOf(registry, spec) ==
    {id \in Ids : \E i \in 1..Len(registry) :
        /\ registry[i].spec = spec
        /\ \E j \in 1..Len(registry[i].handlers) : registry[i].handlers[j].id = id}

\* spec.whenMatches(handler)
WhenMatches ==
    \E spec \in SpecIds, handler \in Fns \cup {NotAFunction} :
        /\ handler # NotAFunction => nextId <= MaxRegs
        /\ specsToHandlers' = whenMatches(specsToHandlers, spec, handler, nextId)
        /\ nextId' = IF handler # NotAFunction THEN nextId + 1 ELSE nextId
        /\ removed' = IF handler # NotAFunction THEN removed
                      ELSE removed \cup {[id |-> id, spec |-> spec] :
                                             id \in IdsOf(specsToHandlers, spec)}
        /\ events' = <<>>
        /\ UNCHANGED <<config, rawColors, avgColors, latestStableColor, timers, tokens,
                       sampleLog, fired, completed, pubs, reconfigured, configuredAt, scan, scanLog,
                       getColorFn, returned, earlierScan>>

\* the body of an "async" callback calls the completion token it was given
CallDone ==
    \E id \in Ids :
        /\ tokens[id] > 0
        /\ LET m == done([Machine(<<>>) EXCEPT !.tokens[id] = @ - 1], id)
           IN Commit(m)
        /\ UNCHANGED <<config, timers, nextId, removed, reconfigured, configuredAt,
                       scan, scanLog, getColorFn, returned, earlierScan>>

Next ==
    \/ GetColor
    \/ ConfigureSampling
    \/ TimerTick
    \/ WhenMatches
    \/ CallDone

Spec == Init /\ [][Next]_vars

\* -------------------------------------------------------- the program scans
\* controller.startScan(freq): the scan object after the first scanForColor
StartScan ==
    /\ ~scan.started
    /\ \E c \in ScanColors :
        /\ scan' = scanForColor([started |-> TRUE, enabled |-> TRUE, count |-> 0,
                                 values |-> InitialValues, pending |-> 0], c)
        /\ scanLog' = Append(scanLog, c)
    /\ UNCHANGED <<config, rawColors, avgColors, latestStableColor, specsToHandlers, timers,
                   tokens, nextId, sampleLog, events, fired, completed, pubs, removed,
                   reconfigured, configuredAt, getColorFn, returned, earlierScan>>

\* a pending setTimeout(scanForColor, 1000 / freq, freq) fires
ScanTick ==
    /\ scan.pending > 0
    /\ scan.enabled => Len(scanLog) < MaxScanTicks
    /\ \E c \in ScanColors :
        /\ scan' = scanForColor([scan EXCEPT !.pending = @ - 1], c)
        /\ scanLog' = IF scan.enabled THEN Append(scanLog, c) ELSE scanLog
    /\ UNCHANGED <<config, rawColors, avgColors, latestStableColor, specsToHandlers, timers,
                   tokens, nextId, sampleLog, events, fired, completed, pubs, removed,
                   reconfigured, configuredAt, getColorFn, returned, earlierScan>>

\* scan.stop()
StopScan ==
    /\ scan.started
    /\ scan' = [scan EXCEPT !.enabled = FALSE]
    /\ UNCHANGED <<config, rawColors, avgColors, latestStableColor, specsToHandlers, timers,
                   tokens, nextId, sampleLog, events, fired, completed, pubs, removed,
                   reconfigured, configuredAt, scanLog, getColorFn, returned, earlierScan>>

NextScan ==
    \/ StartScan
    \/ ScanTick
    \/ StopScan

SpecScan == Init /\ [][NextScan]_vars

\* a timer that is pending fires
SpecScanLive == SpecScan /\ WF_vars(ScanTick)

\* mutant of callGetColorSpec: the call starts the extrema afresh
callGetColorSpec_Resets(sc) ==
    [scan |-> [sc EXCEPT !.values = InitialValues], result |-> getColorSpec(sc)]

\* a call of scan.getColorSpec(): the scan object after the call and the spec
\* returned
callGetColorSpec(sc) == [scan |-> sc, result |-> getColorSpec(sc)]

\* spec = scan.getColorSpec(); reads = the readings the scan had taken
GetColorSpec ==
    /\ scan.started
    /\ Len(returned) < MaxSpecCalls
    /\ LET call == callGetColorSpec(scan)
       IN /\ scan' = call.scan
          /\ returned' = Append(returned, [op |-> "getColorSpec", result |-> call.result,
                                           reads |-> Len(scanLog)])
    /\ UNCHANGED <<config, rawColors, avgColors, latestStableColor, specsToHandlers, timers,
                   tokens, nextId, sampleLog, events, fired, completed, pubs, removed,
                   reconfigured, configuredAt, scanLog, getColorFn, earlierScan>>

\* a program that scans and asks the scan for its spec
NextScanSpec ==
    \/ NextScan
    \/ GetColorSpec

SpecScanSpec == Init /\ [][NextScanSpec]_vars

\* ----------------------------------- the program scans while the controller samples
\* the colors the sample source returns in these runs: those of the
\* stabilizer's runs, which the registered specs match, and off
BesideColors == Colors \cup {Off}

\* what the sample source can return to one call of the stabilizer
BesideSources ==
    UNION {[1..k -> Colors] : k \in 0..Min(1, MaxBesideSamples - Len(sampleLog))}

\* mutant of scanRead: the scan reads the stabilizer's stable color
scanRead_Stable(m) ==
    [m |-> getStableColor(m), c |-> getStableColor(m).latestStableColor]

\* var c = getColorFn() in scanForColor: the controller after the call and
\* the color read
scanRead(m) == [m |-> [m EXCEPT !.source = Tail(@)], c |-> Head(m.source)]

\* scanForColor on scan object sc, enabled, with the reading read
scanTick(sc, read) ==
    /\ Commit(read.m)
    /\ scan' = scanForColor(sc, read.c)
    /\ scanLog' = Append(scanLog, read.c)

\* controller.startScan(freq)
StartScanBeside ==
    /\ ~scan.started
    /\ \E c \in BesideColors :
        scanTick([started |-> TRUE, enabled |-> TRUE, count |-> 0,
                  values |-> InitialValues, pending |-> 0], scanRead(Machine(<<c>>)))
    /\ UNCHANGED <<config, timers, nextId, removed, reconfigured, configuredAt,
                   getColorFn, returned, earlierScan>>

\* a pending setTimeout(scanForColor, 1000 / freq, freq) fires
ScanTickBeside ==
    /\ scan.pending > 0
    /\ IF scan.enabled
       THEN /\ Len(scanLog) < MaxBesideTicks
            /\ \E c \in BesideColors :
                   scanTick([scan EXCEPT !.pending = @ - 1], scanRead(Machine(<<c>>)))
       ELSE /\ Commit(Machine(<<>>))
            /\ scan' = scanForColor([scan EXCEPT !.pending = @ - 1], Off)
            /\ scanLog' = scanLog
    /\ UNCHANGED <<config, timers, nextId, removed, reconfigured, configuredAt,
                   getColorFn, returned, earlierScan>>

\* controller.getColor()
GetColorBeside ==
    /\ \E source \in BesideSources : Commit(getStableColor(Machine(source)))
    /\ UNCHANGED <<config, timers, nextId, removed, reconfigured, configuredAt,
                   scan, scanLog, getColorFn, returned, earlierScan>>

\* controller.configureSampling({stability, frequency})
ConfigureBeside ==
    \E stability \in 1..MaxStability, frequency \in Frequencies, source \in BesideSources :
        configureSampling([stability |-> stability, frequency |-> frequency], source)

\* a pending setTimeout(collectSamples, ...) fires
TimerTickBeside ==
    /\ timers > 0
    /\ \E source \in BesideSources : loop(collectSamples(Machine(source)), timers)
    /\ UNCHANGED <<config, nextId, removed, reconfigured, configuredAt, scan, scanLog,
                   getColorFn, returned, earlierScan>>

\* spec.whenMatches(handler), handler the "sync" callback
WhenMatchesBeside ==
    \E spec \in SpecIds :
        /\ nextId <= MaxRegs
        /\ specsToHandlers' = whenMatches(specsToHandlers, spec, "sync", nextId)
        /\ nextId' = nextId + 1
        /\ events' = <<>>
        /\ UNCHANGED <<config, rawColors, avgColors, latestStableColor, timers, tokens,
                       sampleLog, fired, completed, pubs, removed, reconfigured,
                       configuredAt, scan, scanLog, getColorFn, returned, earlierScan>>

NextBeside ==
    \/ StartScanBeside
    \/ ScanTickBeside
    \/ StopScan
    \/ GetColorBeside
    \/ ConfigureBeside
    \/ TimerTickBeside
    \/ WhenMatchesBeside

SpecBeside == Init /\ [][NextBeside]_vars

\* ------------------------------------------------- the program scans again
\* mutant of startScan: the new scan keeps the extrema of the scan before it
startScan_KeepsValues(previous) ==
    [started |-> TRUE, enabled |-> TRUE, count |-> 0, values |-> previous.values,
     pending |-> 0]

\* the closure variables of a call of startScan, before its first
\* scanForColor: var enabled = true; var count = 0; var values = {...}.
\* They are new variables, whatever scan object previous the program holds.
startScan(previous) ==
    [started |-> TRUE, enabled |-> TRUE, count |-> 0, values |-> InitialValues,
     pending |-> 0]

\* controller.startScan(freq) when the program has started a scan before: the
\* earlier scan object goes on with its own variables and timer.  scanLog
\* holds the readings of the scan started last; of the scans started before
\* the last two nothing is kept.
RestartScan ==
    /\ scan.started
    /\ \E c \in ScanColors :
        /\ scan' = scanForColor(startScan(scan), c)
        /\ scanLog' = <<c>>
    /\ earlierScan' = scan
    /\ UNCHANGED <<config, rawColors, avgColors, latestStableColor, specsToHandlers, timers,
                   tokens, nextId, sampleLog, events, fired, completed, pubs, removed,
                   reconfigured, configuredAt, getColorFn, returned>>

\* a pending setTimeout(scanForColor, 1000 / freq, freq) of the scan started
\* last fires
RescanTick ==
    /\ scan.pending > 0
    /\ scan.enabled => Len(scanLog) < MaxRescanTicks
    /\ \E c \in ScanColors :
        /\ scan' = scanForColor([scan EXCEPT !.pending = @ - 1], c)
        /\ scanLog' = IF scan.enabled THEN Append(scanLog, c) ELSE scanLog
    /\ UNCHANGED <<config, rawColors, avgColors, latestStableColor, specsToHandlers, timers,
                   tokens, nextId, sampleLog, events, fired, completed, pubs, removed,
                   reconfigured, configuredAt, getColorFn, returned, earlierScan>>

\* a pending setTimeout(scanForColor, 1000 / freq, freq) of the earlier scan
\* fires
EarlierScanTick ==
    /\ earlierScan.pending > 0
    /\ earlierScan.enabled => earlierScan.count < MaxRescanTicks
    /\ \E c \in ScanColors :
        earlierScan' = scanForColor([earlierScan EXCEPT !.pending = @ - 1], c)
    /\ UNCHANGED <<config, rawColors, avgColors, latestStableColor, specsToHandlers, timers,
                   tokens, nextId, sampleLog, events, fired, completed, pubs, removed,
                   reconfigured, configuredAt, scan, scanLog, getColorFn, returned>>

\* stop() of the earlier scan object
StopEarlierScan ==
    /\ earlierScan.started
    /\ earlierScan' = [earlierScan EXCEPT !.enabled = FALSE]
    /\ UNCHANGED <<config, rawColors, avgColors, latestStableColor, specsToHandlers, timers,
                   tokens, nextId, sampleLog, events, fired, completed, pubs, removed,
                   reconfigured, configuredAt, scan, scanLog, getColorFn, returned>>

NextRescan ==
    \/ StartScan
    \/ RestartScan
    \/ RescanTick
    \/ EarlierScanTick
    \/ StopScan
    \/ StopEarlierScan

SpecRescan == Init /\ [][NextRescan]_vars

\* ------------------------------------------------- the program calls isMatch
\* an entry of events for a call of spec.isMatch: the color tested, whether
\* the caller gave it, and the value returned
MatchEvent(spec, color, given, result) ==
    [op |-> "isMatch", step |-> 0, depth |-> 0, id |-> 0, spec |-> spec, color |-> color,
     from |-> NoColor, given |-> given, result |-> result]

\* the range test of isMatch on c = color || latestStableColor, when the call
\* has not ended with an exception; the history logs the color and the result
testColor(m1, spec, color) ==
    IF m1.thrown THEN m1
    ELSE LET c == IF color # NoColor THEN color ELSE m1.latestStableColor
         IN [m1 EXCEPT !.events = Append(@, MatchEvent(spec, c, color # NoColor,
                                                       isMatch(SpecDef(spec), c)))]

\* mutant of callIsMatch: without a color the last stable color is tested
\* and no sample is taken
callIsMatch_NoSample(m, spec, color) == testColor(m, spec, color)

\* spec.isMatch(color): var c = color || getStableColor(); NoColor stands for
\* a call without a color
callIsMatch(m, spec, color) ==
    testColor(IF color # NoColor THEN m ELSE getStableColor(m), spec, color)

\* the values around the ends of a channel's range
Edges(channel) ==
    {channel.value - channel.tolerance - 1, channel.value - channel.tolerance,
     channel.value,
     channel.value + channel.tolerance, channel.value + channel.tolerance + 1}

\* the colors the program passes to isMatch of spec
ProbeColors(spec) ==
    {Color(r, g, b) : r \in Edges(spec.r), g \in Edges(spec.g), b \in Edges(spec.b)}

\* spec.isMatch(color)
IsMatchColor ==
    /\ \E spec \in ProbedSpecIds : \E color \in ProbeColors(SpecDef(spec)) :
            Commit(callIsMatch(Machine(<<>>), spec, color))
    /\ UNCHANGED <<config, timers, nextId, removed, reconfigured, configuredAt,
                   scan, scanLog, getColorFn, returned, earlierScan>>

\* spec.isMatch()
IsMatchStable ==
    /\ \E spec \in ProbedSpecIds, source \in Sources :
            Commit(callIsMatch(Machine(source), spec, NoColor))
    /\ UNCHANGED <<config, timers, nextId, removed, reconfigured, configuredAt,
                   scan, scanLog, getColorFn, returned, earlierScan>>

\* a program that asks isMatch about given colors
SpecIsMatch == Init /\ [][IsMatchColor]_vars

\* a program that configures the controller and asks isMatch about the
\* stable color
NextMatch ==
    \/ IsMatchStable
    \/ ConfigureSampling
    \/ TimerTick

SpecMatch == Init /\ [][NextMatch]_vars

\* --------------------------------- callbacks that register handlers in their body
\* the variables a sampling call can change, and the record identities used,
\* take the values of machine m
CommitRegistering(m) == Commit(m) /\ nextId' = m.nextId

\* controller.getColor()
GetColorRegistering ==
    /\ \E source \in Sources : CommitRegistering(getStableColor(Machine(source)))
    /\ UNCHANGED <<config, timers, removed, reconfigured, configuredAt,
                   scan, scanLog, getColorFn, returned, earlierScan>>

\* spec.whenMatches(handler), handler a "register" or a "sync" callback
WhenMatchesRegistering ==
    \E spec \in SpecIds, handler \in {"register", "sync"} :
        /\ nextId <= MaxRegs
        /\ specsToHandlers' = whenMatches(specsToHandlers, spec, handler, nextId)
        /\ nextId' = nextId + 1
        /\ events' = <<>>
        /\ UNCHANGED <<config, rawColors, avgColors, latestStableColor, timers, tokens,
                       sampleLog, fired, completed, pubs, removed, reconfigured,
                       configuredAt, scan, scanLog, getColorFn, returned, earlierScan>>

NextRegistering ==
    \/ GetColorRegistering
    \/ WhenMatchesRegistering

SpecRegistering == Init /\ [][NextRegistering]_vars

\* --------------------------- handlers on spec objects with the same values
\* spec.whenMatches(handler) on one of the twin spec objects; the history
\* logs the call
WhenMatchesTwin ==
    \E spec \in TwinSpecIds, handler \in Fns \cup {NotAFunction} :
        /\ handler # NotAFunction => nextId <= MaxRegs
        /\ specsToHandlers' = whenMatches(specsToHandlers, spec, handler, nextId)
        /\ nextId' = IF handler # NotAFunction THEN nextId + 1 ELSE nextId
        /\ removed' = IF handler # NotAFunction THEN removed
                      ELSE removed \cup {[id |-> id, spec |-> spec] :
                                             id \in IdsOf(specsToHandlers, spec)}
        /\ events' = <<Event("whenMatches", Len(sampleLog), 0,
                             IF handler # NotAFunction THEN nextId ELSE 0, spec,
                             NoColor, NoColor)>>
        /\ UNCHANGED <<config, rawColors, avgColors, latestStableColor, timers, tokens,
                       sampleLog, fired, completed, pubs, reconfigured, configuredAt,
                       scan, scanLog, getColorFn, returned, earlierScan>>

NextTwins ==
    \/ WhenMatchesTwin
    \/ GetColor
    \/ CallDone

SpecTwins == Init /\ [][NextTwins]_vars

\* ------------------------------- callbacks that call a completion token again
\* a call of the completion token of record id after its first call: the
\* closure runs handler.isRunning = false once more; no invocation is completed
\* by it
doneAgain(m, id) ==
    [m EXCEPT
        !.specsToHandlers = clearIsRunning(@, id),
        !.events = Append(@, Event("again", Len(m.sampleLog), m.active, id, 0, NoColor,
                                   NoColor))]

\* the body of an "async" callback calls again a completion token it has
\* called before
CallDoneAgain ==
    \E id \in Ids :
        /\ completed[id] > 0
        /\ \E i \in 1..Len(specsToHandlers) :
               \E j \in 1..Len(specsToHandlers[i].handlers) :
                   /\ specsToHandlers[i].handlers[j].id = id
                   /\ specsToHandlers[i].handlers[j].fn = "async"
        /\ Commit(doneAgain(Machine(<<>>), id))
        /\ UNCHANGED <<config, timers, nextId, removed, reconfigured, configuredAt,
                       scan, scanLog, getColorFn, returned, earlierScan>>

NextTokens ==
    \/ Next
    \/ CallDoneAgain

SpecTokens == Init /\ [][NextTokens]_vars

\* ------------------------------------------------ runs that fill the windows
\* what the sample source can return to one call: nothing, or one sample
WindowSources ==
    UNION {[1..k -> Colors] : k \in 0..Min(1, MaxWindowSamples - Len(sampleLog))}

\* controller.getColor()
GetColorWindow ==
    /\ \E source \in WindowSources : Commit(getStableColor(Machine(source)))
    /\ UNCHANGED <<config, timers, nextId, removed, reconfigured, configuredAt,
                   scan, scanLog, getColorFn, returned, earlierScan>>

\* controller.configureSampling({stability, frequency})
ConfigureWindow ==
    \E stability \in 1..MaxWindowStability, frequency \in Frequencies,
       source \in WindowSources :
        configureSampling([stability |-> stability, frequency |-> frequency], source)

\* a pending setTimeout(collectSamples, ...) fires
TimerTickWindow ==
    /\ timers > 0
    /\ \E source \in WindowSources : loop(collectSamples(Machine(source)), timers)
    /\ UNCHANGED <<config, nextId, removed, reconfigured, configuredAt, scan, scanLog,
                   getColorFn, returned, earlierScan>>

NextWindow ==
    \/ GetColorWindow
    \/ ConfigureWindow
    \/ TimerTickWindow

SpecWindow == Init /\ [][NextWindow]_vars

\* ------------------------------------- runs where the sensor settles on a color
\* the colors the sample source returns in these runs: two far apart and one
\* within the stability threshold of the first
ConvergeColors == Colors \cup {Color(12, 20, 30)}

\* what the sample source can return to one call: nothing, or one sample
ConvergeSources ==
    UNION {[1..k -> ConvergeColors] : k \in 0..Min(1, MaxConvergeSamples - Len(sampleLog))}

\* controller.getColor()
GetColorConverge ==
    /\ \E source \in ConvergeSources : Commit(getStableColor(Machine(source)))
    /\ UNCHANGED <<config, timers, nextId, removed, reconfigured, configuredAt,
                   scan, scanLog, getColorFn, returned, earlierScan>>

\* controller.configureSampling({stability, frequency})
ConfigureConverge ==
    \E stability \in 1..MaxConvergeStability, frequency \in Frequencies,
       source \in ConvergeSources :
        configureSampling([stability |-> stability, frequency |-> frequency], source)

\* a pending setTimeout(collectSamples, ...) fires
TimerTickConverge ==
    /\ timers > 0
    /\ \E source \in ConvergeSources : loop(collectSamples(Machine(source)), timers)
    /\ UNCHANGED <<config, nextId, removed, reconfigured, configuredAt, scan, scanLog,
                   getColorFn, returned, earlierScan>>

NextConverge ==
    \/ GetColorConverge
    \/ ConfigureConverge
    \/ TimerTickConverge

SpecConverge == Init /\ [][NextConverge]_vars

\* --------------------------------------------- programs that start sampling loops
\* the values a program gives for the frequency field, and for the
\* sampleFrequency field, of the newConfig object
FieldValues == {Undefined, 0, ProgramFrequency}

\* the delay (ms) given to setTimeout under configuration cfg: the double
\* 1000 / config.sampleFrequency
timeoutDelay(cfg) == DoubleDivide(DoubleOfInteger(1000), cfg.sampleFrequency)

\* controller.configureSampling(newConfig), newConfig an object with the
\* fields stability, frequency and sampleFrequency (absent when Undefined)
ConfigureLoop ==
    \E stability \in 1..MaxStability, frequency \in FieldValues,
       sampleFrequency \in FieldValues, source \in Sources :
        configureSamplingWithin([stability |-> stability, frequency |-> frequency,
                                 sampleFrequency |-> sampleFrequency], source, MaxLoops)

NextLoops ==
    \/ ConfigureLoop
    \/ TimerTick
    \/ GetColor

SpecLoops == Init /\ [][NextLoops]_vars

\* ------------------------------------- the program calls the statistics module
\* the lists of colors the program gives to average and standardDeviation
StatColors == {Off, Color(10, 20, 30), Color(255, 57, 97), Color(1, 40, 101)}
StatInputs == UNION {[1..k -> StatColors] : k \in 0..MaxStatColors}

\* a color as standardDeviation reads it: every channel a quotient by 1
Exact(c) == [r |-> c.r, g |-> c.g, b |-> c.b, n |-> 1]

\* a call of average(colors): no statement of lines 3-15 throws, the call
\* returns the channel sums over colors.length (0/0, NaN, for an empty list)
callAverage(colors) == [failed |-> FALSE, result |-> average(colors)]

\* a call of standardDeviation(colors): no statement of lines 20-34 throws, the
\* call returns the square roots of the doubles of the result (of NaN, 0 / 0,
\* for an empty list)
callStandardDeviation(colors) ==
    [failed |-> FALSE,
     result |-> standardDeviation([i \in 1..Len(colors) |-> Exact(colors[i])])]

\* what the program has of a call of op with the argument colors
Returned(op, colors, call) ==
    <<[op |-> op, arg |-> colors, failed |-> call.failed, result |-> call.result]>>

\* average(colors)
ApplyAverage ==
    /\ \E colors \in StatInputs :
        returned' = Returned("average", colors, callAverage(colors))
    /\ UNCHANGED <<config, rawColors, avgColors, latestStableColor, specsToHandlers, timers,
                   tokens, nextId, scan, getColorFn, sampleLog, events, fired, completed,
                   pubs, removed, reconfigured, configuredAt, scanLog, earlierScan>>

\* standardDeviation(colors)
ApplyStandardDeviation ==
    /\ \E colors \in StatInputs :
        returned' = Returned("standardDeviation", colors, callStandardDeviation(colors))
    /\ UNCHANGED <<config, rawColors, avgColors, latestStableColor, specsToHandlers, timers,
                   tokens, nextId, scan, getColorFn, sampleLog, events, fired, completed,
                   pubs, removed, reconfigured, configuredAt, scanLog, earlierScan>>

NextStatistics ==
    \/ ApplyAverage
    \/ ApplyStandardDeviation

SpecStatistics == Init /\ [][NextStatistics]_vars

\* ------------------------- a controller constructed without a sample function
\* a program that uses a controller made by newColorSensorController(): every
\* getColorFn() is a call of the global getColor (lines 250-254)
NextUnwired ==
    \/ GetColor
    \/ IsMatchStable
    \/ ConfigureSampling
    \/ WhenMatches

SpecUnwired == InitUnwired /\ [][NextUnwired]_vars

\* ------------------------------------------ scenario: rejection of an outlier
\* controller.configureSampling({stability: 20, frequency: 0}) and then a loop
\* of controller.getColor() over a fixed sample stream
OutlierStability == 20

Grey == Color(100, 100, 100)
Outlier == Color(150, 150, 150)

\* the data of the test 'reports latest stabilized color'
ReportsLatestData ==
    <<Color(100, 101, 100), Color(99, 100, 100), Color(100, 100, 100), Color(100, 100, 100),
      Color(101, 100, 100), Color(100, 100, 100), Color(100, 99, 100), Color(102, 100, 100),
      Color(100, 100, 99), Color(150, 150, 150), Color(100, 101, 99), Color(100, 100, 100),
      Color(100, 99, 100), Color(100, 100, 100), Color(100, 100, 100), Color(100, 99, 101),
      Color(0, 0, 0), Color(100, 100, 100), Color(100, 99, 100), Color(100, 100, 100),
      Color(100, 100, 100), Color(100, 100, 100), Color(100, 100, 100), Color(255, 0, 0),
      Color(100, 100, 100), Color(255, 0, 0), Color(255, 5, 1), Color(255, 0, 0),
      Color(254, 4, 1), Color(253, 3, 0), Color(255, 0, 1), Color(254, 2, 0),
      Color(253, 1, 1), Color(255, 0, 0), Color(0, 0, 0), Color(255, 0, 0),
      Color(0, 0, 0), Color(255, 0, 0), Color(254, 0, 0), Color(255, 0, 0),
      Color(255, 1, 0), Color(255, 0, 0), Color(255, 0, 0), Color(254, 2, 0),
      Color(255, 0, 0), Color(255, 0, 0), Color(255, 4, 0), Color(255, 0, 0),
      Color(255, 5, 0), Color(255, 0, 0), Color(255, 3, 0), Color(255, 0, 0),
      Color(254, 0, 0), Color(255, 2, 0), Color(255, 0, 0), Color(254, 3, 0),
      Color(253, 0, 0), Color(255, 1, 0), Color(255, 0, 0), Color(255, 0, 0),
      Color(253, 3, 0), Color(254, 0, 0), Color(255, 0, 0), Color(255, 5, 0),
      Color(255, 0, 0), Color(253, 0, 0), Color(255, 0, 0), Color(255, 0, 0),
      Color(253, 5, 0), Color(255, 0, 0), Color(254, 0, 0), Color(255, 5, 0),
      Color(255, 0, 0), Color(254, 0, 0), Color(255, 6, 0), Color(253, 0, 0),
      Color(254, 0, 0), Color(255, 1, 0), Color(255, 0, 0), Color(255, 0, 0),
      Color(253, 1, 0), Color(254, 0, 0), Color(255, 0, 0), Color(250, 1, 2),
      Color(253, 0, 0), Color(255, 0, 0), Color(254, 1, 0), Color(255, 0, 0),
      Color(255, 0, 0), Color(253, 1, 0), Color(250, 2, 1), Color(254, 0, 0),
      Color(255, 0, 0), Color(253, 1, 0), Color(255, 0, 0), Color(255, 0, 0),
      Color(255, 1, 0), Color(254, 0, 0), Color(255, 0, 0), Color(255, 0, 0),
      Color(255, 1, 0)>>

\* the stream of the scenario: five {100,101,100}, one {150,150,150}, then
\* {100,100,100}
OutlierData ==
    <<Color(100, 101, 100), Color(100, 101, 100), Color(100, 101, 100),
      Color(100, 101, 100), Color(100, 101, 100), Outlier, Grey>>

\* the color a call of the getColor() of the test returns when idx calls were
\* made before it: data[idx++], and the last entry of data once idx has
\* reached data.length
dataGetColor(data, idx) == data[Min(idx + 1, Len(data))]

\* the samples pulled so far are the first colors of the stream over data
PulledFrom(data) == \A i \in 1..Len(sampleLog) : sampleLog[i] = dataGetColor(data, i - 1)

\* the points at which the test expects the color to change: the number of
\* calls of getColor() made before, and the color expected from then on
transitions ==
    <<[idx |-> 0, color |-> Color(0, 0, 0)],
      [idx |-> 19, color |-> Color(98, 97, 97)],
      [idx |-> 74, color |-> Color(254, 1, 0)],
      [idx |-> 94, color |-> Color(254, 0, 0)]>>

RECURSIVE expectedColor(_, _)
\* expectedColor of the test for the call made after idx calls: the color of
\* the last of the first k transitions that is at or before idx
expectedColor(idx, k) ==
    IF transitions[k].idx <= idx THEN transitions[k].color ELSE expectedColor(idx, k - 1)

\* expect({idx: idx - 1, color: actualColor}).toStrictEqual(...) of every
\* pass of the loop of the test
ReportsLatestStabilizedColor ==
    (config.stability = OutlierStability /\ sampleLog # <<>> /\ PulledFrom(ReportsLatestData))
        => latestStableColor = expectedColor(Len(sampleLog) - 1, Len(transitions))

ConfigureOutlier ==
    /\ sampleLog = <<>>
    /\ config.stability # OutlierStability
    /\ configureSampling([stability |-> OutlierStability, frequency |-> 0], <<>>)

\* one pass of the loop of controller.getColor() calls over the stream of
\* data: while (idx < data.length) in the test, MaxOutlierSamples passes
\* when the data are fewer
GetColorOutlier ==
    /\ config.stability = OutlierStability
    /\ \E data \in {ReportsLatestData, OutlierData} :
        /\ PulledFrom(data)
        /\ Len(sampleLog) < Max(Len(data), MaxOutlierSamples)
        /\ Commit(getStableColor(Machine(<<dataGetColor(data, Len(sampleLog))>>)))
    /\ UNCHANGED <<config, timers, nextId, removed, reconfigured, configuredAt,
                   scan, scanLog, getColorFn, returned, earlierScan>>

NextOutlier ==
    \/ ConfigureOutlier
    \/ GetColorOutlier

SpecOutlier == Init /\ [][NextOutlier]_vars

\* -------------------------------------------------------------- properties
\* positions of the entries of events with the given op
At(op) == {i \in 1..Len(events) : events[i].op = op}

\* how many of the first k entries of events are op entries of record id
Count(op, id, k) == Cardinality({i \in At(op) : i <= k /\ events[i].id = id})

\* the invocations of record id that were not done when entry i of events
\* was logged: those not done before the call, plus those started and minus
\* those done by the entries before i
InFlightBefore(id, i) ==
    (fired[id] - Count("invoke", id, Len(events)))
    - (completed[id] - Count("done", id, Len(events)))
    + Count("invoke", id, i - 1) - Count("done", id, i - 1)

\* the identities of the records the Map holds
Registered == UNION {IdsOf(specsToHandlers, spec) : spec \in SpecIds}

\* the record registered with identity id, when the Map holds it
RecordOf(id) ==
    LET i == CHOOSE i \in 1..Len(specsToHandlers) :
                \E j \in 1..Len(specsToHandlers[i].handlers) :
                    specsToHandlers[i].handlers[j].id = id
        j == CHOOSE j \in 1..Len(specsToHandlers[i].handlers) :
                specsToHandlers[i].handlers[j].id = id
    IN [spec |-> specsToHandlers[i].spec, fn |-> specsToHandlers[i].handlers[j].fn,
        isRunning |-> specsToHandlers[i].handlers[j].isRunning]

\* the publish entry of sample step k in events (0 when the step published nothing)
PublishOf(k) ==
    IF \E i \in At("publish") : events[i].step = k
    THEN CHOOSE i \in At("publish") : events[i].step = k
    ELSE 0

\* C1: at-most-one-in-flight.  Whenever a handler record is invoked, none of
\* its earlier invocations is still waiting for its completion token, at any
\* publication; so a record whose token was never called has been invoked at
\* most once, however often the stable color came back to its spec.
C1_AtMostOneInFlight ==
    /\ \A i \in At("invoke") : InFlightBefore(events[i].id, i) = 0
    /\ \A id \in Ids : fired[id] - completed[id] <= 1
    /\ \A id \in Ids : completed[id] = 0 => fired[id] <= 1

\* C1 witness: a handler on spec 1 that never called done was invoked once,
\* although the stable color matched its spec, left it and matched it again.
C1_Witness ==
    \E id \in Registered :
        /\ RecordOf(id).spec = 1 /\ RecordOf(id).fn = "async"
        /\ pubs[id] = 2 /\ fired[id] = 1 /\ completed[id] = 0

\* C2: re-arming.  A handler that calls done in its body (before the next
\* sample) is invoked once per change of the stable color to a color inside
\* its spec: match, un-match, re-match invokes it exactly twice.
C2_ReArming ==
    \A id \in Registered :
        RecordOf(id).fn = "sync" => fired[id] = pubs[id] /\ completed[id] = fired[id]

\* C2 witness: a done-calling handler on spec 1 after match, un-match, re-match.
C2_Witness ==
    \E id \in Registered :
        /\ RecordOf(id).spec = 1 /\ RecordOf(id).fn = "sync"
        /\ pubs[id] = 2 /\ fired[id] = 2

\* C3: handlers are dispatched only in a sample step that changes the stable
\* color: every invocation belongs to a step that published a color different
\* from the stable color before it.
C3_NoDispatchWithoutChange ==
    \A i \in At("invoke") :
        LET p == PublishOf(events[i].step)
        IN p # 0 /\ p < i /\ ~(events[p].color = events[p].from)

\* C3 witness: a sample step left the stable color as it was, the color is
\* inside the spec of a registered handler that is idle after having been
\* invoked and done, and the step invoked nothing.
C3_Witness ==
    /\ At("pull") # {} /\ At("publish") = {} /\ At("invoke") = {}
    /\ \E id \in Registered :
        /\ Within(SpecDef(RecordOf(id).spec), latestStableColor)
        /\ fired[id] >= 1 /\ completed[id] = fired[id] /\ ~RecordOf(id).isRunning

\* C4 as claimed: at every invocation the published color is inside the spec
\* and the stable color published before it was outside the spec.
C4_EntersRegion ==
    \A i \in At("invoke") :
        LET p == PublishOf(events[i].step)
        IN /\ p # 0
           /\ Within(SpecDef(events[i].spec), events[p].color)
           /\ ~Within(SpecDef(events[i].spec), events[p].from)

\* C4 amended: at every invocation the color passed to the handler is the
\* stable color published by that sample step, it is inside the spec, and it
\* differs from the stable color published before it.
C4_InvokedOnChangeIntoMatch ==
    \A i \in At("invoke") :
        LET p == PublishOf(events[i].step)
        IN /\ p # 0
           /\ events[i].color = events[p].color
           /\ Within(SpecDef(events[i].spec), events[i].color)
           /\ events[p].from # events[p].color

\* C4 witness: a handler is invoked at a change of the stable color between
\* two colors that are both inside its spec.
C4_Witness ==
    \E i \in At("invoke") :
        LET p == PublishOf(events[i].step)
        IN /\ p # 0
           /\ Within(SpecDef(events[i].spec), events[p].from)
           /\ Within(SpecDef(events[i].spec), events[p].color)

\* C5: registration order.  Within one dispatch the handlers of a spec are
\* invoked in the order whenMatches registered them (record identities grow
\* with registration), and every registered done-calling handler of a
\* matching spec is among them.
C5_RegistrationOrder ==
    /\ \A i, j \in At("invoke") :
        (i < j /\ events[i].step = events[j].step /\ events[i].spec = events[j].spec)
            => events[i].id < events[j].id
    /\ \A p \in At("publish") : \A id \in Registered :
        (RecordOf(id).fn = "sync" /\ Within(SpecDef(RecordOf(id).spec), events[p].color))
            => \E i \in At("invoke") : events[i].id = id /\ events[i].step = events[p].step

\* C5 witness: one dispatch invoked two handlers of the same spec.
C5_Witness ==
    \E i, j \in At("invoke") :
        /\ i < j /\ events[i].step = events[j].step /\ events[i].spec = events[j].spec
        /\ events[i].id # events[j].id

\* C6: every invocation passes a color inside the inclusive tolerance range
\* of the spec the handler is registered for, on all three channels.
C6_InvokedOnlyOnMatch ==
    \A i \in At("invoke") :
        /\ events[i].id \in IdsOf(specsToHandlers, events[i].spec)
        /\ Within(SpecDef(events[i].spec), events[i].color)

\* C6 witness: a stable color outside spec 1 was published while spec 1 had
\* an idle handler, and another spec's handler was invoked.
C6_Witness ==
    /\ At("invoke") # {}
    /\ \E p \in At("publish") : \E id \in Registered :
        /\ RecordOf(id).spec = 1 /\ RecordOf(id).fn = "sync"
        /\ ~Within(SpecDef(1), events[p].color)

\* C7: deregistration.  whenMatches with a non-function removes every handler
\* of the spec, and no removed handler record is invoked at a later
\* publication.
C7_Deregistration ==
    /\ \A x \in removed : x.id \notin Registered
    /\ \A i \in At("invoke") : \A x \in removed : events[i].id # x.id

\* C7 witness: after a handler was removed, a color inside its spec was published.
C7_Witness ==
    \E x \in removed : \E p \in At("publish") : Within(SpecDef(x.spec), events[p].color)

\* C8 as claimed: within one publication every eligible handler is invoked
\* before the next sample step starts: no handler is invoked for the
\* publication of a step after a later sample step has pulled its sample.
C8_DispatchBeforeNextSample ==
    \A i \in At("pull") : \A j \in At("invoke") :
        i < j => events[j].step >= events[i].step

\* C9: the stable color starts as {0,0,0}; on a fresh controller with
\* stability S it is {0,0,0} while fewer than S samples were taken; and it
\* changes only in a step that takes a sample.
C9_StableColorCell ==
    /\ latestStableColor = Off
    /\ [](( ~reconfigured /\ Len(sampleLog) < config.stability ) => latestStableColor = Off)
    /\ [][latestStableColor' # latestStableColor => Len(sampleLog') > Len(sampleLog)]_vars

\* C9 witness: a fresh controller with stability 2 changed its stable color
\* in its second sample step.
C9_Witness ==
    /\ ~reconfigured /\ config.stability = 2 /\ Len(sampleLog) = 2
    /\ latestStableColor # Off

\* every sample pulled so far is the color c
AllSamples(c) == \A i \in 1..Len(sampleLog) : sampleLog[i] = c

\* C10: on a fresh on-demand controller with stability S fed the same color
\* c, the stable color is c after S samples and after every later sample.
C10_ConstantStreamConverges ==
    \A c \in Colors :
        ( /\ ~reconfigured /\ config.sampleFrequency = 0
          /\ AllSamples(c) /\ Len(sampleLog) >= config.stability )
            => latestStableColor = c

\* C10 witness: stability 2, three samples of one color, stable color reached.
C10_Witness ==
    \E c \in Colors :
        /\ ~reconfigured /\ config.sampleFrequency = 0 /\ config.stability = 2
        /\ AllSamples(c) /\ Len(sampleLog) = 3 /\ latestStableColor = c

\* C11: outlier rejection.  With stability 20 on a fresh on-demand controller
\* and the stream five {100,101,100}, one {150,150,150}, then {100,100,100},
\* the stable color is never {150,150,150}; once it is {100,100,100} it stays
\* {100,100,100}; and it is {100,100,100} when the run has pulled its last
\* sample.
C11_OutlierRejected ==
    /\ [](PulledFrom(OutlierData) => latestStableColor # Outlier)
    /\ [][(PulledFrom(OutlierData)' /\ latestStableColor = Grey)
            => latestStableColor' = Grey]_vars
    /\ []((PulledFrom(OutlierData) /\ Len(sampleLog) >= MaxOutlierSamples)
            => latestStableColor = Grey)

\* C11 witness: the outlier has been sampled, the stable color has left
\* {0,0,0} for a color other than {100,100,100}, and later samples made it
\* {100,100,100}.
C11_Witness ==
    /\ config.stability = OutlierStability
    /\ Len(sampleLog) > OutlierStability /\ PulledFrom(OutlierData)
    /\ latestStableColor = Grey
    /\ \E i \in At("publish") : events[i].from # Off /\ events[i].from # Grey

\* the return entry of the getColor() call logged at entry i of events
ReturnOf(i) ==
    CHOOSE j \in At("return") :
        /\ j > i /\ events[j].depth = events[i].depth
        /\ \A k \in At("return") : (k > i /\ events[k].depth = events[i].depth) => j <= k

\* the entries with the given op that the call logged at entry i made itself
\* (not the calls nested in it)
OwnEntries(op, i) ==
    {k \in At(op) : i < k /\ k < ReturnOf(i) /\ events[k].depth = events[i].depth}

\* the last top-level call was getColor() (or isMatch() without a color)
IsGetColorCall(log) == log # <<>> /\ log[1].op = "call"

\* C12: getColor() by sampling mode.  On demand (sampleFrequency 0) every
\* call pulls exactly one sample, runs the transition rule once and returns
\* the stable color the rule left; otherwise the call pulls nothing, changes
\* no state and returns the stable color it found.
C12_GetColorByMode ==
    /\ [](\A i \in At("call") :
            IF config.sampleFrequency = 0
            THEN /\ Cardinality(OwnEntries("pull", i)) = 1
                 /\ Cardinality(OwnEntries("end", i)) = 1
                 /\ \A k \in OwnEntries("end", i) :
                        k = ReturnOf(i) - 1 /\ events[ReturnOf(i)].color = events[k].color
            ELSE /\ ReturnOf(i) = i + 1
                 /\ events[i + 1].color = events[i].from)
    /\ [][IsGetColorCall(events') =>
            IF config.sampleFrequency = 0
            THEN /\ Len(sampleLog') = Len(sampleLog) + Cardinality({i \in 1..Len(events') :
                                                                     events'[i].op = "call"})
                 /\ events'[Len(events')].color = latestStableColor'
            ELSE /\ UNCHANGED <<config, rawColors, avgColors, latestStableColor,
                                specsToHandlers, timers, tokens, sampleLog, scan>>
                 /\ events'[Len(events')].color = latestStableColor]_vars

\* C12 witness: getColor() in autonomous mode returned a stable color that a
\* timer sample had published.
C12_Witness ==
    /\ config.sampleFrequency # 0
    /\ IsGetColorCall(events) /\ Len(events) = 2
    /\ events[2].op = "return" /\ events[2].color # Off

\* C13: isMatch(color) is the inclusive range test on every channel: it
\* returns true exactly when value - tolerance <= color <= value + tolerance
\* on r, g and b; a color at value +/- tolerance on every channel matches, a
\* color at value +/- (tolerance + 1) on some channel does not.
C13_IsMatchInclusive ==
    \A i \in At("isMatch") :
        events[i].given =>
            LET spec == SpecDef(events[i].spec)
                c == events[i].color
            IN /\ events[i].result = Within(spec, c)
               /\ (\A ch \in {"r", "g", "b"} :
                        c[ch] \in {spec[ch].value - spec[ch].tolerance,
                                   spec[ch].value + spec[ch].tolerance})
                    => events[i].result
               /\ (\E ch \in {"r", "g", "b"} :
                        c[ch] \in {spec[ch].value - spec[ch].tolerance - 1,
                                   spec[ch].value + spec[ch].tolerance + 1})
                    => ~events[i].result

\* C13 witness: isMatch returned true for a color at the upper end of r, the
\* lower end of g and the upper end of b.
C13_Witness ==
    \E i \in At("isMatch") :
        LET spec == SpecDef(events[i].spec)
            c == events[i].color
        IN /\ events[i].given /\ events[i].result
           /\ c.r = spec.r.value + spec.r.tolerance
           /\ c.g = spec.g.value - spec.g.tolerance
           /\ c.b = spec.b.value + spec.b.tolerance

\* C14: isMatch() without a color tests the controller's stable color as
\* getStableColor() returns it; on demand the call pulls exactly one fresh
\* sample first, and on a fresh controller of stability 1 it returns the
\* match result of that sample.
C14_IsMatchOnStableColor ==
    /\ [](\A i \in At("isMatch") :
            ~events[i].given =>
                /\ events[i].color = latestStableColor
                /\ events[i].result = Within(SpecDef(events[i].spec), latestStableColor)
                /\ config.sampleFrequency = 0 => Cardinality(At("pull")) = 1
                /\ (config.sampleFrequency = 0 /\ config.stability = 1 /\ ~reconfigured)
                    => events[i].result = Within(SpecDef(events[i].spec),
                                                 sampleLog[Len(sampleLog)]))
    /\ [][(events' # <<>> /\ events'[Len(events')].op = "isMatch"
                /\ ~events'[Len(events')].given /\ config.sampleFrequency = 0)
            => /\ Len(sampleLog') = Len(sampleLog) + 1
               /\ config' = config]_vars

\* C14 witness: on a fresh controller of stability 1, isMatch() returned
\* true for one sample and the next isMatch() returned false for the next.
C14_Witness ==
    /\ config.sampleFrequency = 0 /\ config.stability = 1 /\ ~reconfigured
    /\ Len(sampleLog) >= 2
    /\ Within(SpecDef(1), sampleLog[Len(sampleLog) - 1])
    /\ \E i \in At("isMatch") :
            ~events[i].given /\ events[i].spec = 1 /\ ~events[i].result

\* the last reading of the scan
LastReading(log) == log[Len(log)]

\* C15: off-sample exclusion.  A scan tick that reads {0,0,0} leaves every
\* min, every max and the count as they were; a tick that reads a color with
\* a non-zero channel widens every channel's min/max to include it and adds
\* exactly 1 to the count.  A scan whose only non-off reading is c yields
\* value c and tolerance 0 on every channel.
C15_OffSampleExclusion ==
    /\ [][Len(scanLog') > Len(scanLog) =>
            LET c == LastReading(scanLog')
            IN IF c = Off
               THEN scan'.values = scan.values /\ scan'.count = scan.count
               ELSE /\ scan'.count = scan.count + 1
                    /\ \A ch \in {"r", "g", "b"} :
                        /\ scan'.values[ch].min = Min(scan.values[ch].min, c[ch])
                        /\ scan'.values[ch].max = Max(scan.values[ch].max, c[ch])]_vars
    /\ [](\A c \in ScanColors \ {Off} :
            ( /\ \E i \in 1..Len(scanLog) : scanLog[i] = c
              /\ \A i \in 1..Len(scanLog) : scanLog[i] \in {Off, c} )
            => \A ch \in {"r", "g", "b"} : getColorSpec(scan)[ch] = Channel(c[ch], 0))

\* C15 witness: the scan read {0,0,0}, one other color, and {0,0,0} again.
C15_Witness ==
    /\ Len(scanLog) = 3 /\ scanLog[1] = Off /\ scanLog[2] # Off /\ scanLog[3] = Off
    /\ scan.count = 1

\* C16 as claimed, for a scan that has accumulated a reading: on every
\* channel value = round((max + min) / 2) and
\* tolerance = round(max - value) = round(value - min).
C16_ToleranceFromValue ==
    (scan.started /\ scan.count >= 1) =>
        \A ch \in {"r", "g", "b"} :
            LET spec == getColorSpec(scan)[ch]
                v == scan.values[ch]
            IN /\ 2 * spec.value - 1 <= v.max + v.min /\ v.max + v.min <= 2 * spec.value
               /\ spec.tolerance = v.max - spec.value
               /\ spec.tolerance = spec.value - v.min

\* C16 amended: on every channel value = round((max + min) / 2) and
\* tolerance = round(max - (max + min) / 2), the distance from the midpoint
\* before rounding; that tolerance equals value - min.
C16_ToleranceFromMidpoint ==
    scan.started =>
        \A ch \in {"r", "g", "b"} :
            LET spec == getColorSpec(scan)[ch]
                v == scan.values[ch]
            IN /\ 2 * spec.value - 1 <= v.max + v.min /\ v.max + v.min <= 2 * spec.value
               /\ 2 * spec.tolerance - 1 <= v.max - v.min
               /\ v.max - v.min <= 2 * spec.tolerance
               /\ spec.tolerance = spec.value - v.min

\* C16 witness: a channel whose max + min is odd, so that the rounded value
\* is not the midpoint.
C16_Witness ==
    /\ scan.started /\ scan.count >= 2
    /\ (scan.values.r.max + scan.values.r.min) % 2 = 1
    /\ getColorSpec(scan).r.tolerance = scan.values.r.max - getColorSpec(scan).r.value + 1

\* how often the scan read the color c
Readings(c) == Cardinality({i \in 1..Len(scanLog) : scanLog[i] = c})

\* C17: a scan that read {0,0,0}, {1,40,101}, {2,45,101} and {6,50,111},
\* in any order and with any further {0,0,0} readings, and was stopped, yields
\* r {value 4, tolerance 3}, g {value 45, tolerance 5}, b {value 106,
\* tolerance 5} and the count 3.
C17_ScanScenario ==
    ( /\ scan.started /\ ~scan.enabled
      /\ Readings(Off) >= 1 /\ Readings(D1) = 1 /\ Readings(D2) = 1 /\ Readings(D3) = 1
      /\ \A i \in 1..Len(scanLog) : scanLog[i] \in {Off, D1, D2, D3} )
    => /\ getColorSpec(scan) = [r |-> Channel(4, 3), g |-> Channel(45, 5),
                                b |-> Channel(106, 5)]
       /\ getCount(scan) = 3

\* C17 witness: the stopped scan read D3, {0,0,0}, D1, {0,0,0}, D2 in this order.
C17_Witness ==
    /\ scan.started /\ ~scan.enabled
    /\ scanLog = <<D3, Off, D1, Off, D2>>

\* C18 as claimed: in every scan state every channel of getColorSpec() has a
\* tolerance >= 0, also when the scan has read nothing but {0,0,0}.
C18_ToleranceNonNegative ==
    scan.started =>
        \A ch \in {"r", "g", "b"} : getColorSpec(scan)[ch].tolerance >= 0

\* C19 as claimed: the color an enabled scan tick accumulates is the stable
\* color of the controller, the one getColor() reports.
C19_ScanReadsStableColor ==
    [][(Len(scanLog') > Len(scanLog) /\ scan'.count > scan.count)
        => /\ LastReading(scanLog') = latestStableColor'
           /\ scan'.values = widen(scan.values, latestStableColor')]_vars

\* the scan was stopped
Stopped == scan.started /\ ~scan.enabled

\* C20: after stop() at most one scan tick runs; it reads no sample, changes
\* neither count nor extrema and schedules no tick, so getCount() and
\* getColorSpec() keep their results from stop() on, and eventually no scan
\* timer is pending.
C20_StopEndsScan ==
    /\ [](Stopped => scan.pending <= 1)
    /\ [][Stopped =>
            /\ Stopped'
            /\ scanLog' = scanLog
            /\ getCount(scan') = getCount(scan)
            /\ getColorSpec(scan') = getColorSpec(scan)
            /\ scan'.values = scan.values
            /\ scan'.pending <= scan.pending]_vars
    /\ (Stopped ~> (Stopped /\ scan.pending = 0))

\* C20 witness: a scan that had accumulated readings was stopped and its
\* last tick has run.
C20_Witness ==
    /\ Stopped /\ scan.pending = 0 /\ scan.count >= 2

\* C21: getColorSpec() is idempotent.  Two calls between which the scan took
\* no reading return the same value and tolerance on every channel, and a
\* call leaves every min, every max and the count as they were.
C21_GetColorSpecIdempotent ==
    /\ [](\A i, j \in 1..Len(returned) :
            ( /\ returned[i].op = "getColorSpec" /\ returned[j].op = "getColorSpec"
              /\ returned[i].reads = returned[j].reads )
            => \A ch \in {"r", "g", "b"} :
                /\ returned[i].result[ch].value = returned[j].result[ch].value
                /\ returned[i].result[ch].tolerance = returned[j].result[ch].tolerance)
    /\ [][Len(returned') > Len(returned) =>
            /\ scan'.values = scan.values
            /\ scan'.count = scan.count
            /\ scan'.enabled = scan.enabled /\ scan'.pending = scan.pending]_vars

\* C21 witness: getColorSpec() was called twice in a row on a scan that had
\* accumulated two readings.
C21_Witness ==
    /\ Len(returned) = 2 /\ scan.count >= 2
    /\ returned[1].op = "getColorSpec" /\ returned[2].op = "getColorSpec"
    /\ returned[1].reads = Len(scanLog) /\ returned[2].reads = Len(scanLog)
    /\ returned[1].result = getColorSpec(scan)

\* C22 as claimed: on a controller constructed without a sample function no
\* call of getColor() and no isMatch() without a color returns: each ends
\* with the error of the missing sample function, whatever configureSampling
\* calls came before.
C22_UnwiredNeverReturns ==
    getColorFn = "default" =>
        /\ At("return") = {}
        /\ At("isMatch") = {}
        /\ \A i \in At("call") : i < Len(events) /\ events[i + 1].op = "throw"

\* C23 as claimed: average and standardDeviation of an empty list of colors
\* end with an error; they return no result computed by a division by zero.
C23_EmptyFailsFast ==
    \A i \in 1..Len(returned) :
        (returned[i].op \in {"average", "standardDeviation"} /\ returned[i].arg = <<>>)
            => returned[i].failed

\* C24 as claimed: the sampleFrequency field of the object given to
\* configureSampling selects the mode.  After a call with sampleFrequency 0
\* the controller samples on demand and the call has scheduled no timer; after
\* a call with a positive sampleFrequency f a timer is pending and the delay
\* of the loop is 1000/f ms.
C24_SampleFrequencySelectsMode ==
    (events # <<>> /\ events[1].op = "configure"
        /\ events[1].newConfig.sampleFrequency # Undefined)
    => IF events[1].newConfig.sampleFrequency = 0
       THEN config.sampleFrequency = 0 /\ Len(events) = 1
       ELSE /\ timers > 0
            /\ config.sampleFrequency # 0
            /\ timeoutDelay(config) =
                   DoubleDivide(DoubleOfInteger(1000), events[1].newConfig.sampleFrequency)

RECURSIVE SumTo(_, _)
\* f[1] + ... + f[k]
SumTo(f, k) == IF k = 0 THEN 0 ELSE f[k] + SumTo(f, k - 1)

\* the standard deviation standardDeviation() computes for channel ch of the
\* averaged colors is below the threshold
DeviationBelowThreshold(avgs, ch) == BelowThreshold(standardDeviation(avgs)[ch])

\* c is the nearest integer to the mean of channel ch of the colors raw
\* (halves rounded up): c - 1/2 <= mean < c + 1/2
NearestToMean(c, raw, ch) ==
    LET n == Len(raw)
        sum == SumTo([i \in 1..n |-> raw[i][ch]], n)
    IN (2 * c - 1) * n <= 2 * sum /\ 2 * sum < (2 * c + 1) * n

\* C25: whenever a sample step changes the stable color, the averages window
\* of that step (the new average included) held at least stability entries,
\* its standard deviation was below 3.0 on the three channels, and the new
\* stable color is on every channel the nearest integer to the mean of the
\* raw window of that step, the new sample included.
C25_AcceptanceRule ==
    \A i \in At("publish") :
        \E j \in At("pull") :
            /\ j < i
            /\ events[j].step = events[i].step
            /\ Len(events[j].avgs) >= config.stability
            /\ \A ch \in {"r", "g", "b"} :
                   /\ DeviationBelowThreshold(events[j].avgs, ch)
                   /\ NearestToMean(events[i].color[ch], events[j].raw, ch)
            /\ events[j].raw[1] = events[j].color
            /\ events[i].color # events[i].from

\* a sample step changed the stable color after a window of two averages was
\* found stable, to a mean that is not the color just sampled
C25_Witness ==
    \E i \in At("publish") : \E j \in At("pull") :
        /\ events[j].step = events[i].step
        /\ Len(events[j].avgs) = 2
        /\ events[i].color # events[j].color

\* C26: in a sample step where the averages window is full and the standard
\* deviation of some channel is at or above the threshold, the stable color
\* stays as it was on the three channels and no handler is invoked.
C26_RetentionRule ==
    \A j \in At("pull") :
        (/\ Len(events[j].avgs) >= config.stability
         /\ \E ch \in {"r", "g", "b"} : ~DeviationBelowThreshold(events[j].avgs, ch))
        => /\ \A i \in At("publish") \cup At("invoke") : events[i].step # events[j].step
           /\ \E k \in At("end") :
                  /\ k > j
                  /\ events[k].step = events[j].step
                  /\ events[k].color = events[j].from

\* a sample step with a full window of several averages whose deviation is at or
\* above the threshold has ended, a handler being registered for the color
\* that would have been published
C26_Witness ==
    \E j \in At("pull") :
        /\ Len(events[j].avgs) >= config.stability
        /\ Len(events[j].avgs) >= 2
        /\ \E ch \in {"r", "g", "b"} : ~DeviationBelowThreshold(events[j].avgs, ch)
        /\ \E k \in At("end") : k > j /\ events[k].step = events[j].step
        /\ \E e \in 1..Len(specsToHandlers) :
               Within(SpecDef(specsToHandlers[e].spec),
                      round(average(events[j].raw)))

\* C27: while the stability S has not changed since the first sample, after
\* every sample step the raw window and the averages window have the same
\* length min(n, S - 1), n the number of samples taken, and the raw window
\* holds the most recent samples, the newest first.
C27_SlidingWindow ==
    ~reconfigured =>
        /\ Len(rawColors) = Len(avgColors)
        /\ Len(rawColors) = Min(Len(sampleLog), config.stability - 1)
        /\ \A i \in 1..Len(rawColors) :
               rawColors[i] = sampleLog[Len(sampleLog) - i + 1]

\* under stability 3 more samples were taken than the windows keep, and the
\* two samples kept differ
C27_Witness ==
    /\ ~reconfigured
    /\ config.stability = 3
    /\ Len(sampleLog) > 3
    /\ Len(rawColors) = 2
    /\ rawColors[1] # rawColors[2]

\* C28 as claimed: after any sequence of configureSampling calls at most one
\* sampling loop is active, that is, at most one setTimeout(collectSamples)
\* callback is pending.
C28_AtMostOneLoop == timers <= 1

\* C29: reconfiguring to frequency 0 cancels the loops on their next tick.
\* While the frequency is 0 and stays 0 every sample is pulled by a call of
\* getColor(), none by a timer; a timer stops being pending only by firing
\* under frequency 0, and then it pulls no sample, leaves the windows and the
\* stable color alone and schedules nothing; and a timer becomes pending only
\* in a call of configureSampling that sets a frequency other than 0.
C29_ZeroFrequencyCancels ==
    [][/\ (config.sampleFrequency = 0 /\ config'.sampleFrequency = 0
            /\ sampleLog' # sampleLog)
           => (timers' = timers /\ events'[1].op = "call")
       /\ timers' < timers
           => /\ config.sampleFrequency = 0
              /\ timers' = timers - 1
              /\ events' = <<>>
              /\ UNCHANGED <<sampleLog, rawColors, avgColors, latestStableColor>>
       /\ timers' > timers
           => (config'.sampleFrequency # 0 /\ events'[1].op = "configure")]_vars

\* every pending timer has fired under frequency 0, after samples were taken
\* by the loops
C29_Witness ==
    /\ config.sampleFrequency = 0
    /\ timers = 0
    /\ events = <<>>
    /\ sampleLog # <<>>

\* C30 as claimed: a call of configureSampling leaves the raw window, the
\* averages window, the stable color and the handler registry as they were,
\* for every new stability and frequency.
C30_ConfigureLeavesStateAlone ==
    [][(events' # <<>> /\ events'[1].op = "configure")
       => UNCHANGED <<rawColors, avgColors, latestStableColor, specsToHandlers>>]_vars

\* C30 amended: a call of configureSampling that sets frequency 0 leaves the
\* windows, the stable color, the registry, the samples taken and the pending
\* timers as they were.  A call that sets another frequency (or none, which
\* selects 100) runs one sample step under the new configuration before it
\* returns: one sample is pulled and put in front of the raw window, its
\* average in front of the averages window, both windows are cut to
\* stability - 1 entries when the averages window is full, the stable color
\* stays or becomes the rounded average, no handler record is added or
\* removed, and one more timer is pending.
C30_ConfigureSamplesOnce ==
    [][(events' # <<>> /\ events'[1].op = "configure")
       => IF config'.sampleFrequency = 0
          THEN UNCHANGED <<rawColors, avgColors, latestStableColor, specsToHandlers,
                           sampleLog, timers>>
          ELSE /\ Len(sampleLog') = Len(sampleLog) + 1
               /\ SubSeq(sampleLog', 1, Len(sampleLog)) = sampleLog
               /\ timers' = timers + 1
               /\ LET raw == <<sampleLog'[Len(sampleLog')]>> \o rawColors
                      avgs == <<average(raw)>> \o avgColors
                      kept == IF Len(avgs) >= config'.stability
                              THEN Min(config'.stability - 1, Len(avgs))
                              ELSE Len(avgs)
                  IN /\ rawColors' = SubSeq(raw, 1, Min(kept, Len(raw)))
                     /\ avgColors' = SubSeq(avgs, 1, kept)
                     /\ latestStableColor' \in {latestStableColor, round(average(raw))}
               /\ \A spec \in SpecIds :
                      IdsOf(specsToHandlers', spec) = IdsOf(specsToHandlers, spec)]_vars

\* a call of configureSampling with a frequency other than 0 has pulled a
\* sample into a raw window that held earlier samples, and changed the stable
\* color
C30_Witness ==
    /\ events # <<>>
    /\ events[1].op = "configure"
    /\ config.sampleFrequency # 0
    /\ \E j \in At("pull") : Len(events[j].raw) >= 2
    /\ At("publish") # {}

RECURSIVE TrailingRun(_, _)
\* how many of the first k entries of log, counted from entry k backwards,
\* equal entry k
TrailingRun(log, k) ==
    IF k = 0 THEN 0
    ELSE IF k = 1 \/ log[k - 1] # log[k] THEN 1
    ELSE 1 + TrailingRun(log, k - 1)

\* the samples at the end of sampleLog that are all the same color and were
\* all taken under the present stability
SteadySamples ==
    Min(TrailingRun(sampleLog, Len(sampleLog)), Len(sampleLog) - configuredAt)

\* C31 as claimed: whatever the controller state was, once the sample source
\* has returned the same color c on 2S - 1 samples in a row or more under an
\* unchanged stability S, the stable color is c.
C31_ConvergesWithin ==
    (sampleLog # <<>> /\ SteadySamples >= 2 * config.stability - 1)
        => latestStableColor = sampleLog[Len(sampleLog)]

\* C32 as claimed: a completion token acts only on the invocation it was
\* issued to.  A registered record with an invocation whose own token was not
\* called is not eligible, whatever tokens of earlier invocations are called
\* again, and so at most one invocation of a record is not done.
C32_TokenActsOnItsInvocation ==
    \A id \in Ids :
        /\ fired[id] - completed[id] <= 1
        /\ (id \in Registered /\ fired[id] - completed[id] > 0) => RecordOf(id).isRunning

\* C33 as claimed: the in-flight guard survives re-registration.  While an
\* invocation of a callback on a record deregistered with its spec is not
\* done, the record registered afterwards for the same callback on that spec
\* is not invoked.  (Only the "async" callback leaves invocations not done.)
C33_GuardSurvivesReregistration ==
    \A r \in removed : \A id \in IdsOf(specsToHandlers, r.spec) :
        (/\ id > r.id
         /\ RecordOf(id).fn = "async"
         /\ fired[r.id] - completed[r.id] > 0)
        => fired[id] = 0

\* C34 as claimed: a dispatch acts on the registry as it was when it began.
\* A record registered by a callback while the dispatch of a publication runs
\* is not invoked in that dispatch.
C34_DispatchUsesSnapshot ==
    \A i \in At("register") : \A j \in At("invoke") :
        (j > i /\ events[j].id = events[i].id) => events[j].step # events[i].step

\* C35: the spec derived from a scan covers what was scanned.  Once a scan has
\* accumulated a reading that is not off, getColorSpec().isMatch(c) holds for
\* every reading c it accumulated, and on every channel
\* value - tolerance <= min and max <= value + tolerance.
C35_SpecCoversScan ==
    scan.count >= 1 =>
        /\ \A i \in 1..Len(scanLog) :
               ~isOff(scanLog[i]) => isMatch(getColorSpec(scan), scanLog[i])
        /\ \A ch \in {"r", "g", "b"} :
               /\ getColorSpec(scan)[ch].value - getColorSpec(scan)[ch].tolerance
                      <= scan.values[ch].min
               /\ scan.values[ch].max
                      <= getColorSpec(scan)[ch].value + getColorSpec(scan)[ch].tolerance

\* a scan has accumulated readings whose extrema on the red channel have an
\* odd sum, so that the midpoint and the tolerance are rounded
C35_Witness ==
    /\ scan.count >= 2
    /\ (scan.values.r.min + scan.values.r.max) % 2 = 1
    /\ \E i \in 1..Len(scanLog) : scanLog[i].r = scan.values.r.min /\ ~isOff(scanLog[i])

\* C36: scanner independence.  A step of a scan (its start and every tick)
\* changes only the scan's own extrema, count and timer: the raw window, the
\* averages window and the stable color stay as they were, no sample is
\* pulled by the stabilizer and no handler is invoked, whether the controller
\* samples on demand or on its timer.
C36_ScannerIndependence ==
    [][(scan' # scan /\ scan'.enabled = scan.enabled)
       => /\ UNCHANGED <<rawColors, avgColors, latestStableColor, specsToHandlers,
                         sampleLog, fired, pubs, timers, config>>
          /\ At("invoke")' = {}]_vars

\* in on-demand mode a scan has read a color that a spec with a registered
\* handler matches and that is not the stable color
C36_Witness ==
    /\ scan.count >= 1
    /\ config.sampleFrequency = 0
    /\ \E i \in 1..Len(scanLog) :
           /\ scanLog[i] # latestStableColor
           /\ \E e \in 1..Len(specsToHandlers) :
                  Within(SpecDef(specsToHandlers[e].spec), scanLog[i])
    /\ events = <<>>

\* the readings among the first k of log that are not off
RECURSIVE Accumulated(_, _)
Accumulated(log, k) ==
    IF k = 0 THEN {}
    ELSE Accumulated(log, k - 1) \cup (IF isOff(log[k]) THEN {} ELSE {log[k]})

\* C37: every scan starts clean.  Whatever an earlier scan on the controller
\* has accumulated, the count of a scan is the number of its own readings that
\* are not off, and on every channel min and max are 255 and 0 lowered and
\* raised by its own readings only; a scan whose readings were all off has
\* count 0 and min/max {255, 0}.
C37_ScanStartsClean ==
    scan.started =>
        /\ scan.count = Cardinality({i \in 1..Len(scanLog) : ~isOff(scanLog[i])})
        /\ \A ch \in {"r", "g", "b"} :
               LET own == {c[ch] : c \in Accumulated(scanLog, Len(scanLog))}
               IN /\ \A v \in own : scan.values[ch].min <= v /\ v <= scan.values[ch].max
                  /\ scan.values[ch].min \in own \cup {255}
                  /\ scan.values[ch].max \in own \cup {0}
                  /\ own = {} => scan.values[ch] = Extrema(255, 0)

\* a scan was started after an earlier scan had accumulated a range of
\* readings, and has accumulated one reading of its own inside that range
C37_Witness ==
    /\ earlierScan.count >= 2
    /\ earlierScan.values.r.min < earlierScan.values.r.max
    /\ scan.count = 1
    /\ scan.values.r.min = scan.values.r.max
    /\ earlierScan.values.r.min < scan.values.r.min
    /\ scan.values.r.max < earlierScan.values.r.max

\* C38 as claimed: a call of getColor(), isMatch() or configureSampling() in
\* which the sample function throws leaves the raw window, the averages
\* window, the stable color, the handler records and the configuration as
\* they were before the call.
C38_FailedSampleLeavesState ==
    [][(\E i \in 1..Len(events') : events'[i].op = "throw")
       => UNCHANGED <<rawColors, avgColors, latestStableColor, specsToHandlers, config>>]_vars

\* the handler records the Map holds for the spec object spec
HandlersOf(registry, spec) ==
    IF EntryOf(registry, spec) = 0 THEN <<>>
    ELSE registry[EntryOf(registry, spec)].handlers

\* C39: handlers are keyed by the identity of the spec object.  Two spec
\* objects with the same values and tolerances never share a handler record,
\* and a call of whenMatches on one of them, registering or deregistering,
\* leaves the handler records of the other as they were.
C39_KeyedByIdentity ==
    /\ [](\A s \in TwinSpecIds : \A t \in TwinSpecIds \ {s} :
            /\ SpecDef(s) = SpecDef(t)
            /\ IdsOf(specsToHandlers, s) \cap IdsOf(specsToHandlers, t) = {})
    /\ [][(events' # <<>> /\ events'[1].op = "whenMatches")
          => /\ \A t \in TwinSpecIds \ {events'[1].spec} :
                    HandlersOf(specsToHandlers', t) = HandlersOf(specsToHandlers, t)
             /\ IF events'[1].id # 0
                THEN events'[1].id \in IdsOf(specsToHandlers', events'[1].spec)
                ELSE HandlersOf(specsToHandlers', events'[1].spec) = <<>>]_vars

\* one twin was deregistered after its handler was invoked, and the other
\* twin still holds its handler record
C39_Witness ==
    /\ events # <<>>
    /\ events[1].op = "whenMatches"
    /\ events[1].id = 0
    /\ \E r \in removed : r.spec = events[1].spec /\ fired[r.id] > 0
    /\ \E t \in TwinSpecIds \ {events[1].spec} : HandlersOf(specsToHandlers, t) # <<>>

====
